---------------------------- MODULE Spec2Model ----------------------------
(***************************************************************************)
(* Contact management REST back ends of the CS499 ePortfolio:              *)
(*   - the array-backed server  (Milestone 2 Software Design, server.js)   *)
(*   - the Map-backed server    (sorted keys + binary search, part_001)    *)
(*   - the MySQL-backed server  (part_000)                                 *)
(* A JavaScript string is a sequence of one-character strings, a JSON      *)
(* value is a tagged record (string, number or undefined).                 *)
(***************************************************************************)
EXTENDS Integers, Sequences, FiniteSets, TLC

(***************************************************************************)
(* JavaScript values and strings                                           *)
(***************************************************************************)
Str(s) == [t |-> "string", v |-> s]
Num(n) == [t |-> "number", v |-> n]
Undef == [t |-> "undefined"]

IsStr(x) == x.t = "string"
IsNum(x) == x.t = "number"

\* ToBoolean: undefined, "" and 0 are falsy.
Truthy(x) ==
    CASE x.t = "string" -> x.v # <<>>
      [] x.t = "number" -> x.v # 0
      [] OTHER -> FALSE

Digits == <<"0", "1", "2", "3", "4", "5", "6", "7", "8", "9">>
DigitChars == {Digits[i] : i \in 1..10}
UpperChars == {"A", "B", "C", "D", "E", "F", "G", "H", "I", "J", "L", "N", "W"}
LowerChars == {"a", "b", "c", "d", "e", "i", "j", "l", "m", "o", "p", "r", "s", "t",
               "u", "x"}
WhiteSpace == {" ", "\n"}
PunctChars == {"-", ".", "(", ")", "@", "+", ","}
Alphabet == DigitChars \cup UpperChars \cup LowerChars \cup WhiteSpace \cup PunctChars

\* UTF-16 code unit of a character (the order of <, === and Array.prototype.sort()).
CharCode(c) ==
    CASE c = "\n" -> 10 [] c = " " -> 32 [] c = "(" -> 40 [] c = ")" -> 41
      [] c = "+" -> 43 [] c = "," -> 44 [] c = "-" -> 45 [] c = "." -> 46
      [] c = "0" -> 48 [] c = "1" -> 49 [] c = "2" -> 50 [] c = "3" -> 51
      [] c = "4" -> 52 [] c = "5" -> 53 [] c = "6" -> 54 [] c = "7" -> 55
      [] c = "8" -> 56 [] c = "9" -> 57 [] c = "@" -> 64
      [] c = "A" -> 65 [] c = "B" -> 66 [] c = "C" -> 67 [] c = "D" -> 68
      [] c = "E" -> 69 [] c = "F" -> 70 [] c = "G" -> 71 [] c = "H" -> 72
      [] c = "I" -> 73 [] c = "J" -> 74 [] c = "L" -> 76 [] c = "N" -> 78
      [] c = "W" -> 87
      [] c = "a" -> 97 [] c = "b" -> 98 [] c = "c" -> 99 [] c = "d" -> 100
      [] c = "e" -> 101 [] c = "i" -> 105 [] c = "j" -> 106 [] c = "l" -> 108
      [] c = "m" -> 109 [] c = "o" -> 111 [] c = "p" -> 112 [] c = "r" -> 114
      [] c = "s" -> 115 [] c = "t" -> 116 [] c = "u" -> 117 [] c = "x" -> 120

\* String.prototype.trim
RECURSIVE TrimStart(_)
TrimStart(s) ==
    IF s # <<>> /\ Head(s) \in WhiteSpace THEN TrimStart(Tail(s)) ELSE s

RECURSIVE TrimEnd(_)
TrimEnd(s) ==
    IF s # <<>> /\ s[Len(s)] \in WhiteSpace
    THEN TrimEnd(SubSeq(s, 1, Len(s) - 1)) ELSE s

Trim(s) == TrimEnd(TrimStart(s))

\* s.replace(/[cls]/g, ''): drop every character of the class.
Strip(s, cls) == SelectSeq(s, LAMBDA c : c \notin cls)

\* Number -> decimal string (String(i), and the coercion of RegExp.test).
RECURSIVE NatToString(_)
NatToString(n) ==
    IF n < 10 THEN <<Digits[n + 1]>>
    ELSE NatToString(n \div 10) \o <<Digits[(n % 10) + 1]>>

JsString(x) ==
    CASE x.t = "string" -> x.v
      [] x.t = "number" -> NatToString(x.v)
      [] OTHER -> <<"u", "n", "d", "e", "f", "i", "n", "e", "d">>

(***************************************************************************)
(* Regular expressions, as sets of reachable match positions.  P is the    *)
(* set of positions (1-based index of the next unread character) at which  *)
(* the pattern read so far can end.                                        *)
(***************************************************************************)
\* one character of the class
ReOne(s, cls, P) == {i + 1 : i \in {j \in P : j <= Len(s) /\ s[j] \in cls}}
\* x?
ReOpt(s, cls, P) == P \cup ReOne(s, cls, P)
\* x{n}
RECURSIVE ReRep(_, _, _, _)
ReRep(s, cls, n, P) == IF n = 0 THEN P ELSE ReRep(s, cls, n - 1, ReOne(s, cls, P))
\* [^...]+ : one or more characters outside the class
RePlusNot(s, not, P) ==
    {j \in 2..(Len(s) + 1) :
        \E i \in P : i < j /\ \A k \in i..(j - 1) : s[k] \notin not}
\* anchored at both ends
ReMatch(s, P) == (Len(s) + 1) \in P

\* /^[^\s@]+@[^\s@]+\.[^\s@]+$/
emailRegex(s) ==
    LET notCls == WhiteSpace \cup {"@"}
        p1 == RePlusNot(s, notCls, {1})
        p2 == ReOne(s, {"@"}, p1)
        p3 == RePlusNot(s, notCls, p2)
        p4 == ReOne(s, {"."}, p3)
        p5 == RePlusNot(s, notCls, p4)
    IN  ReMatch(s, p5)

\* /^(\+?1?[-.\s]?)?\(?([0-9]{3})\)?[-.\s]?([0-9]{3})[-.\s]?([0-9]{4})$/
phoneRegex(s) ==
    LET sep == {"-", "."} \cup WhiteSpace
        g1 == ReOpt(s, sep, ReOpt(s, {"1"}, ReOpt(s, {"+"}, {1})))
        p1 == {1} \cup g1
        p2 == ReOpt(s, {"("}, p1)
        p3 == ReRep(s, DigitChars, 3, p2)
        p4 == ReOpt(s, {")"}, p3)
        p5 == ReOpt(s, sep, p4)
        p6 == ReRep(s, DigitChars, 3, p5)
        p7 == ReOpt(s, sep, p6)
        p8 == ReRep(s, DigitChars, 4, p7)
    IN  ReMatch(s, p8)

(***************************************************************************)
(* Field validators of the Map-backed server (part_001, lines 58-76).      *)
(* A validator returns null, a message, or throws a TypeError when a       *)
(* string method is called on a value that is not a string.                *)
(***************************************************************************)
null == "null"
TypeError == "TypeError"

MaxIdLen == 10
MaxAddressLen == 200

validateEmail(email) ==
    IF ~Truthy(email) THEN "Email is required"
    ELSE IF ~IsStr(email) THEN TypeError
    ELSE IF Trim(email.v) = <<>> THEN "Email is required"
    ELSE IF emailRegex(email.v) THEN null
    ELSE "Please enter a valid email address"

validatePhone(phone) ==
    IF ~Truthy(phone) THEN "Phone number is required"
    ELSE IF ~IsStr(phone) THEN TypeError
    ELSE IF Trim(phone.v) = <<>> THEN "Phone number is required"
    ELSE LET cleanedPhone == Strip(phone.v, WhiteSpace \cup {"-", "(", ")"})
             digitsOnly == Strip(cleanedPhone, Alphabet \ DigitChars)
         IN  IF Len(digitsOnly) < 10 THEN "Phone number must have at least 10 digits"
             ELSE IF phoneRegex(phone.v) THEN null
             ELSE "Please enter a valid phone number (e.g., +1-555-123-4567 or 555-123-4567)"

validateAddress(address) ==
    IF ~Truthy(address) THEN null
    ELSE IF ~IsStr(address) THEN TypeError
    ELSE IF Len(Trim(address.v)) > MaxAddressLen
         THEN "Address must be 200 characters or less"
    ELSE null

\* contact.firstName / contact.lastName (lines 83-84)
validateName(name, message) ==
    IF ~Truthy(name) THEN message
    ELSE IF ~IsStr(name) THEN TypeError
    ELSE IF Trim(name.v) = <<>> THEN message
    ELSE null

\* contact.id (lines 80-82); ids is the set of ids the duplicate test finds in
\* the store.
validateId(id, isNewContact, ids) ==
    IF ~Truthy(id) THEN "ID is required"
    ELSE IF ~IsStr(id) THEN TypeError
    ELSE IF Trim(id.v) = <<>> THEN "ID is required"
    ELSE IF Len(Trim(id.v)) > MaxIdLen THEN "ID must be 10 characters or less"
    ELSE IF isNewContact /\ Trim(id.v) \in ids THEN "ID already exists"
    ELSE null

Fields == {"id", "firstName", "lastName", "phone", "address", "email"}

\* The report of validateContact: threw is TRUE when a TypeError left the
\* function, errors maps each failing field to its message.
Report(err) ==
    [threw |-> \E f \in Fields : err[f] = TypeError,
     errors |-> [f \in {g \in Fields : err[g] # null} |-> err[f]]]

Passed(report) == ~report.threw /\ DOMAIN report.errors = {}

\* What a call of validateContact leaves: the report it returns, and the store
\* and the object of the candidate, which it was handed by reference, as they
\* are when it returns.
Returned(report, contacts, contact) ==
    [threw |-> report.threw, errors |-> report.errors,
     contacts |-> contacts, contact |-> contact]

fieldErrors(contact, isNewContact, ids) ==
    [f \in Fields |->
        CASE f = "id" -> validateId(contact.id, isNewContact, ids)
          [] f = "firstName" -> validateName(contact.firstName, "First name is required")
          [] f = "lastName" -> validateName(contact.lastName, "Last name is required")
          [] f = "email" -> validateEmail(contact.email)
          [] f = "phone" -> validatePhone(contact.phone)
          [] f = "address" -> validateAddress(contact.address)]

(***************************************************************************)
(* Orders on strings                                                       *)
(***************************************************************************)
\* Lexicographic three-way comparison of two sequences of integers.
RECURSIVE SeqCmp(_, _)
SeqCmp(a, b) ==
    IF a = <<>> THEN (IF b = <<>> THEN 0 ELSE -1)
    ELSE IF b = <<>> THEN 1
    ELSE IF Head(a) < Head(b) THEN -1
    ELSE IF Head(a) > Head(b) THEN 1
    ELSE SeqCmp(Tail(a), Tail(b))

CodeUnits(s) == [i \in 1..Len(s) |-> CharCode(s[i])]

\* a < b on strings: lexicographic by UTF-16 code unit (also the order of the
\* default Array.prototype.sort()).
StrLess(a, b) == SeqCmp(CodeUnits(a), CodeUnits(b)) < 0

\* Collation of String.prototype.localeCompare (root/en collation): strings are
\* compared by the primary weights of all their characters first (white space <
\* punctuation < symbols < digits < letters, letters without regard to case),
\* and only when these are equal by case, lower case before upper case.
Primary(c) ==
    CASE c = "\n" -> 1 [] c = " " -> 2 [] c = "-" -> 3 [] c = "," -> 4
      [] c = "." -> 5 [] c = "(" -> 6 [] c = ")" -> 7 [] c = "@" -> 8
      [] c = "+" -> 9
      [] c \in DigitChars -> CharCode(c) - 38
      [] c \in UpperChars -> CharCode(c) - 45
      [] c \in LowerChars -> CharCode(c) - 77

Tertiary(c) == IF c \in UpperChars THEN 1 ELSE 0

localeCompare(a, b) ==
    LET p == SeqCmp([i \in 1..Len(a) |-> Primary(a[i])],
                    [i \in 1..Len(b) |-> Primary(b[i])])
    IN  IF p # 0 THEN p
        ELSE SeqCmp([i \in 1..Len(a) |-> Tertiary(a[i])],
                    [i \in 1..Len(b) |-> Tertiary(b[i])])

Range(s) == {s[i] : i \in 1..Len(s)}

\* Array.prototype.sort(compare): the stable sort of s.  The element at index i
\* goes to the position given by the number of elements that sort before it.
\* before is the set of pairs <<a, b>> for which the comparison puts a first.
SortBy(s, before) ==
    LET n == Len(s)
        rank == [i \in 1..n |->
                   1 + Cardinality({j \in 1..n :
                          <<s[j], s[i]>> \in before
                          \/ (<<s[i], s[j]>> \notin before /\ j < i)})]
    IN  [k \in 1..n |-> s[CHOOSE i \in 1..n : rank[i] = k]]

\* Array.prototype.sort() without a comparison, on an array of strings: the
\* order of the UTF-16 code units.
sort(s) == SortBy(s, {p \in Range(s) \X Range(s) : StrLess(p[1], p[2])})

(***************************************************************************)
(* The JavaScript Map: entries in insertion order.                         *)
(***************************************************************************)
MapKeys(m) == [i \in 1..Len(m) |-> m[i].key]
MapValues(m) == [i \in 1..Len(m) |-> m[i].value]
MapHas(m, k) == \E i \in 1..Len(m) : m[i].key = k
MapGet(m, k) == m[CHOOSE i \in 1..Len(m) : m[i].key = k].value
\* set keeps the position of a key already present and appends a new key
MapSet(m, k, v) ==
    IF MapHas(m, k)
    THEN [i \in 1..Len(m) |-> IF m[i].key = k THEN [key |-> k, value |-> v] ELSE m[i]]
    ELSE Append(m, [key |-> k, value |-> v])
MapDelete(m, k) == SelectSeq(m, LAMBDA e : e.key # k)

(***************************************************************************)
(* Requests: the JSON bodies and path ids the clients send.                *)
(***************************************************************************)
MaxContacts == 2
PerfCount == 3

Body(id, firstName, lastName, phone, address, email) ==
    [id |-> id, firstName |-> firstName, lastName |-> lastName,
     phone |-> phone, address |-> address, email |-> email]

sA1 == <<"A", "1">>
sA1sp == <<"A", "1", " ">>
\* "B2" followed by nine spaces: 11 characters, 2 after trim()
sB2pad == <<"B", "2", " ", " ", " ", " ", " ", " ", " ", " ", " ">>
\* 200 times "x" followed by a space: 201 characters, 200 after trim()
sAddressPad == [i \in 1..(MaxAddressLen + 1) |-> IF i <= MaxAddressLen THEN "x" ELSE " "]
sa0 == <<"a", "0">>
s1 == <<"1">>
sJo == <<"J", "o">>
sLi == <<"L", "i">>
sAl == <<"A", "l">>
sWu == <<"W", "u">>
sElm == <<"E", "l", "m">>
sBad == <<"b", "a", "d">>
sEmailJo == <<"j", "o", "@", "x", ".", "c", "o", "m">>
sEmailAl == <<"a", "l", "@", "x", ".", "c", "o", "m">>
sPhone == <<"5", "5", "5", "-", "1", "2", "3", "-", "4", "5", "6", "7">>
sPhoneLong == <<"+", "1", " ", "(", "5", "5", "5", ")", " ",
                "1", "2", "3", "-", "4", "5", "6", "7">>

\* {id, firstName:"Jo", lastName:"Li", phone:"555-123-4567", email:"jo@x.com"}
Jo(id) == Body(id, Str(sJo), Str(sLi), Str(sPhone), Undef, Str(sEmailJo))
\* {id, firstName:"Al", lastName:"Wu", phone:"+1 (555) 123-4567", address:"Elm",
\*  email:"al@x.com"}
Al(id) == Body(id, Str(sAl), Str(sWu), Str(sPhoneLong), Str(sElm), Str(sEmailAl))
\* {phone:"bad"}
BadPhone == Body(Undef, Undef, Undef, Str(sBad), Undef, Undef)
\* {}
NoBody == Body(Undef, Undef, Undef, Undef, Undef, Undef)
\* {address:""}
NoAddress == Body(Undef, Undef, Undef, Undef, Str(<<>>), Undef)

Ids == {sA1, sA1sp, sa0, s1}

\* bodies of POST /contacts
PostBodies ==
    {Jo(Str(id)) : id \in Ids} \cup {Al(Str(sA1)), Al(Str(sA1sp))}
    \cup {[Jo(Str(sa0)) EXCEPT !.phone = Str(sBad)]}

\* bodies of POST /contacts sent to the array-backed server: also an id of 11
\* characters and an address of 201 characters
ArrPostBodies ==
    PostBodies \cup {Jo(Str(sB2pad)), [Jo(Str(sa0)) EXCEPT !.address = Str(sAddressPad)]}

\* bodies of PUT /contacts/:id
PutBodies == {BadPhone, NoBody, Al(Undef), Al(Str(sA1))}

\* :id of PUT, DELETE and GET /contacts/:id
PathIds == Ids \ {s1}

(***************************************************************************)
(* State                                                                   *)
(***************************************************************************)
VARIABLES
    server,        \* which of the three servers runs: "array", "map" or "mysql"
    contactsArr,   \* server.js: let contacts = []
    contactsMap,   \* part_001:  let contacts = new Map()
    db,            \* part_000:  let db ("undefined" until createConnection resolves)
    table,         \* part_000:  the rows of the MySQL table contacts
    listening,     \* part_000:  app.listen has been called
    candidate,     \* the contact handed to validateContact
    report,        \* the reports validateContact has returned for candidate
    seed,          \* loadTestData: where it stands and the lines it has read
    search,        \* the binary-search loop of GET /contacts/:id, step by step
    client,        \* the ContactManager component and its calls in flight
    collation      \* part_000:  the default collation of the MySQL server

vars == <<server, contactsArr, contactsMap, db, table, listening, candidate, report,
          seed, search, client, collation>>

\* loadTestData (part_001 lines 95-122, part_000 lines 71-104) in a directory
\* without TestData.txt: fs.access rejects, the catch logs it, nothing is loaded.
NoTestData == [pc |-> "done", lines |-> <<>>, loaded |-> {}]

\* no GET /contacts/:id is being handled
NoSearch == [pc |-> "idle", sortedIds |-> <<>>, id |-> <<>>, left |-> 0, right |-> 0]

\* CREATE TABLE (part_000 lines 55-62) names no character set, so the id
\* column has the default collation of the server, which compares without
\* regard to case: utf8mb4_0900_ai_ci (MySQL 8.0), where trailing spaces
\* count, or a general_ci / swedish_ci collation (MySQL 5.7, MariaDB), where
\* strings are compared as if padded with spaces.  The other servers have none.
Collations ==
    IF server = "mysql" THEN {"0900_ai_ci", "general_ci"} ELSE {"none"}

\* editingContact = null (ContactManager.jsx line 13)
Null == [t |-> "null"]

\* validationErrors = {} (ContactManager.jsx line 23)
NoErrors == [f \in {} |-> null]

\* The state ContactManager starts from (ContactManager.jsx lines 10-23), the
\* no effect run and no call made.
NoClient ==
    [contacts |-> <<>>, loading |-> TRUE, error |-> null, editingContact |-> Null,
     showForm |-> FALSE,
     newContact |-> Body(Str(<<>>), Str(<<>>), Str(<<>>), Str(<<>>), Str(<<>>), Str(<<>>)),
     validationErrors |-> NoErrors, calls |-> {}, failed |-> FALSE, events |-> 0]

\* What a handler does: the store it leaves and the response it sends.
Out(contacts, status, json) ==
    [contacts |-> contacts, res |-> [status |-> status, json |-> json]]

NotFound == [error |-> "Contact not found"]
ValidationFailed(errors) == [error |-> "Validation failed", details |-> errors]
InternalServerError == [error |-> "Internal server error"]

\* The test ids of GET /performance; the model bounds by MaxContacts the
\* entries of other ids.
IsTestId(k) == \E i \in 0..(PerfCount - 1) : k = NatToString(i)
Stored(ids) == Cardinality({i \in 1..Len(ids) : ~IsTestId(ids[i])})

(***************************************************************************)
(* The Map-backed server (part_001)                                        *)
(***************************************************************************)
\* validateContact returning at the first field that fails (fields in the order
\* of lines 80-90).
validateContactFirst(contacts, contact, isNewContact) ==
    LET err == fieldErrors(contact, isNewContact,
                           {k \in Range(MapKeys(contacts)) : MapHas(contacts, k)})
        order == <<"id", "firstName", "lastName", "email", "phone", "address">>
        failing == {i \in 1..6 : err[order[i]] # null}
    IN  Returned(Report([f \in Fields |->
                            IF \E i \in failing : order[i] = f /\ \A j \in failing : i <= j
                            THEN err[f] ELSE null]),
                 contacts, contact)

\* validateContact normalising the id of its candidate before it tests it
\* (contact.id = contact.id.trim()).
validateContactTrimming(contacts, contact, isNewContact) ==
    LET trimmed == IF IsStr(contact.id) THEN [contact EXCEPT !.id = Str(Trim(@.v))]
                   ELSE contact
    IN  Returned(Report(fieldErrors(trimmed, isNewContact,
                                    {k \in Range(MapKeys(contacts)) : MapHas(contacts, k)})),
                 contacts, trimmed)

\* validateContact (lines 78-92), reading the global contacts: it calls
\* contacts.has, reads the fields of contact and assigns to errors only.
validateContact(contacts, contact, isNewContact) ==
    Returned(Report(fieldErrors(contact, isNewContact,
                                {k \in Range(MapKeys(contacts)) : MapHas(contacts, k)})),
             contacts, contact)

\* GET /contacts (lines 132-136)
getContacts(contacts) ==
    LET sortedContacts ==
            SortBy(MapValues(contacts),
                   {p \in Range(MapValues(contacts)) \X Range(MapValues(contacts)) :
                        localeCompare(p[1].id.v, p[2].id.v) < 0})
    IN  Out(contacts, 200, sortedContacts)

\* A POST that stores the contact under the trimmed id.
postContactTrimmedKey(contacts, body) ==
    LET validationErrors == validateContact(contacts, body, TRUE)
    IN  IF validationErrors.threw THEN Out(contacts, 500, InternalServerError)
        ELSE IF DOMAIN validationErrors.errors # {}
        THEN Out(contacts, 400, ValidationFailed(validationErrors.errors))
        ELSE Out(MapSet(contacts, Trim(body.id.v), body), 201,
                 [message |-> "Contact added successfully"])

\* POST /contacts (lines 145-157)
postContact(contacts, body) ==
    LET validationErrors == validateContact(contacts, body, TRUE)
    IN  IF validationErrors.threw THEN Out(contacts, 500, InternalServerError)
        ELSE IF DOMAIN validationErrors.errors # {}
        THEN Out(contacts, 400, ValidationFailed(validationErrors.errors))
        ELSE Out(MapSet(contacts, body.id.v, body), 201,
                 [message |-> "Contact added successfully"])

\* lines 176-180: only the truthy fields of the body overwrite
merge(contact, body) ==
    [contact EXCEPT
        !.firstName = IF Truthy(body.firstName) THEN body.firstName ELSE @,
        !.lastName = IF Truthy(body.lastName) THEN body.lastName ELSE @,
        !.phone = IF Truthy(body.phone) THEN body.phone ELSE @,
        !.address = IF Truthy(body.address) THEN body.address ELSE @,
        !.email = IF Truthy(body.email) THEN body.email ELSE @]

\* PUT /contacts/:id (lines 167-188).  contacts.get(id) returns the stored object
\* and lines 176-180 assign to its fields, before validateContact is called.
putContact(contacts, id, body) ==
    IF ~MapHas(contacts, id) THEN Out(contacts, 404, NotFound)
    ELSE LET contact == merge(MapGet(contacts, id), body)
             written == MapSet(contacts, id, contact)
             validationErrors == validateContact(written, contact, FALSE)
         IN  IF validationErrors.threw THEN Out(written, 500, InternalServerError)
             ELSE IF DOMAIN validationErrors.errors # {}
             THEN Out(written, 400, ValidationFailed(validationErrors.errors))
             ELSE Out(written, 200, [message |-> "Contact updated successfully"])

\* DELETE /contacts/:id (lines 197-207)
deleteContact(contacts, id) ==
    IF MapHas(contacts, id)
    THEN Out(MapDelete(contacts, id), 200, [message |-> "Contact deleted successfully"])
    ELSE Out(contacts, 404, NotFound)

\* The loop with the ids compared by localeCompare instead of <.
RECURSIVE binarySearchCollated(_, _, _, _)
binarySearchCollated(sortedIds, id, left, right) ==
    IF left > right THEN 0
    ELSE LET mid == left + ((right - left) \div 2)
         IN  IF sortedIds[mid + 1] = id THEN mid + 1
             ELSE IF localeCompare(sortedIds[mid + 1], id) < 0
                  THEN binarySearchCollated(sortedIds, id, mid + 1, right)
                  ELSE binarySearchCollated(sortedIds, id, left, mid - 1)

\* The loop of lines 219-231: the index (from 1) of id in sortedIds, 0 when the
\* loop ends with left > right; left, right and mid count from 0 as in the code.
RECURSIVE binarySearch(_, _, _, _)
binarySearch(sortedIds, id, left, right) ==
    IF left > right THEN 0
    ELSE LET mid == left + ((right - left) \div 2)
         IN  IF sortedIds[mid + 1] = id THEN mid + 1
             ELSE IF StrLess(sortedIds[mid + 1], id)
                  THEN binarySearch(sortedIds, id, mid + 1, right)
                  ELSE binarySearch(sortedIds, id, left, mid - 1)

\* A lookup that takes the contact it finds out of the store.
getContactTaking(contacts, id) ==
    IF MapHas(contacts, id)
    THEN Out(MapDelete(contacts, id), 200, MapGet(contacts, id))
    ELSE Out(contacts, 404, NotFound)

\* GET /contacts/:id (lines 216-234)
getContact(contacts, id) ==
    LET sortedIds == sort(MapKeys(contacts))
    IN  IF binarySearch(sortedIds, id, 0, Len(sortedIds) - 1) # 0
        THEN Out(contacts, 200, MapGet(contacts, id))
        ELSE Out(contacts, 404, NotFound)

\* GET /performance (lines 242-272).  The loop of line 244 builds the test
\* contacts of ids "0" .. "99"; the model builds those of ids "0" .. PerfCount - 1.
testContact(i) ==
    LET n == NatToString(i)
    IN  Body(Str(n), Str(<<"N", "a", "m", "e">> \o n), Str(<<"L", "a", "s", "t">> \o n),
             Str(<<"1", "2", "3", "4", "5", "6", "7", "8", "9", "0">>),
             Str(<<"A", "d", "d", "r">> \o n),
             Str(<<"e", "m", "a", "i", "l">> \o n
                 \o <<"@", "e", "x", "a", "m", "p", "l", "e", ".", "c", "o", "m">>))

testContacts == [k \in 1..PerfCount |-> testContact(k - 1)]

\* testContacts.forEach(c => contacts.set(c.id, c)), for contacts cs of distinct
\* ids: a key already present keeps its position and takes the new value, the
\* other keys are appended in the order of cs.
setAll(m, cs) ==
    LET entry(k) == [key |-> cs[k].id.v, value |-> cs[k]]
        replaced == [j \in 1..Len(m) |->
                       IF \E k \in 1..Len(cs) : cs[k].id.v = m[j].key
                       THEN entry(CHOOSE k \in 1..Len(cs) : cs[k].id.v = m[j].key)
                       ELSE m[j]]
        fresh == SelectSeq([k \in 1..Len(cs) |-> entry(k)],
                           LAMBDA e : ~MapHas(m, e.key))
    IN  replaced \o fresh

getPerformance(contacts) ==
    Out(setAll(contacts, testContacts), 200, [timings |-> "measured"])

MapGetContacts ==
    /\ server = "map"
    /\ contactsMap' = getContacts(contactsMap).contacts
    /\ UNCHANGED <<server, contactsArr, db, table, listening, candidate, report, seed, search, client, collation>>

MapPostContact(body) ==
    /\ server = "map"
    /\ contactsMap' = postContact(contactsMap, body).contacts
    /\ Stored(MapKeys(contactsMap')) <= MaxContacts
    /\ UNCHANGED <<server, contactsArr, db, table, listening, candidate, report, seed, search, client, collation>>

MapPutContact(id, body) ==
    /\ server = "map"
    /\ contactsMap' = putContact(contactsMap, id, body).contacts
    /\ UNCHANGED <<server, contactsArr, db, table, listening, candidate, report, seed, search, client, collation>>

MapDeleteContact(id) ==
    /\ server = "map"
    /\ contactsMap' = deleteContact(contactsMap, id).contacts
    /\ UNCHANGED <<server, contactsArr, db, table, listening, candidate, report, seed, search, client, collation>>

MapGetContact(id) ==
    /\ server = "map"
    /\ contactsMap' = getContact(contactsMap, id).contacts
    /\ UNCHANGED <<server, contactsArr, db, table, listening, candidate, report, seed, search, client, collation>>

MapGetPerformance ==
    /\ server = "map"
    /\ contactsMap' = getPerformance(contactsMap).contacts
    /\ UNCHANGED <<server, contactsArr, db, table, listening, candidate, report, seed, search, client, collation>>

NextMap ==
    \/ MapGetContacts
    \/ \E body \in PostBodies : MapPostContact(body)
    \/ \E id \in PathIds, body \in PutBodies : MapPutContact(id, body)
    \/ \E id \in PathIds : MapDeleteContact(id)
    \/ \E id \in PathIds : MapGetContact(id)
    \/ MapGetPerformance

(***************************************************************************)
(* The array-backed server (Milestone 2 Software Design Enhancement,       *)
(* server.js).  Its field validators (lines 57-92) are those of part_001.  *)
(***************************************************************************)
\* validateContact (lines 94-127); line 102: contacts.find(c => c.id === id.trim())
validateContactArr(contacts, contact, isNewContact) ==
    LET err == fieldErrors(contact, isNewContact,
                           {c.id.v : c \in {d \in Range(contacts) : IsStr(d.id)}})
    IN  Returned(Report([err EXCEPT !.id = IF @ = "ID already exists"
                                           THEN "ID already exists. Please choose a different ID."
                                           ELSE @]),
                 contacts, contact)

\* GET /contacts (lines 136-139)
getContactsArr(contacts) == Out(contacts, 200, contacts)

\* POST /contacts (lines 149-169)
postContactArr(contacts, body) ==
    LET validationErrors == validateContactArr(contacts, body, TRUE)
    IN  IF validationErrors.threw THEN Out(contacts, 500, InternalServerError)
        ELSE IF DOMAIN validationErrors.errors # {}
        THEN Out(contacts, 400, ValidationFailed(validationErrors.errors))
        ELSE Out(Append(contacts, body), 201, [message |-> "Contact added successfully"])

\* PUT /contacts/:id (lines 180-206)
putContactArr(contacts, id, body) ==
    IF \A i \in 1..Len(contacts) : contacts[i].id # Str(id)
    THEN Out(contacts, 404, NotFound)
    ELSE LET contactIndex ==
                 CHOOSE i \in 1..Len(contacts) :
                     /\ contacts[i].id = Str(id)
                     /\ \A j \in 1..(i - 1) : contacts[j].id # Str(id)
             validationErrors == validateContactArr(contacts, body, FALSE)
         IN  IF validationErrors.threw THEN Out(contacts, 500, InternalServerError)
             ELSE IF DOMAIN validationErrors.errors # {}
             THEN Out(contacts, 400, ValidationFailed(validationErrors.errors))
             ELSE Out([contacts EXCEPT ![contactIndex] = [body EXCEPT !.id = Str(id)]],
                      200, [message |-> "Contact updated successfully"])

\* DELETE /contacts/:id (lines 216-231)
deleteContactArr(contacts, id) ==
    LET kept == SelectSeq(contacts, LAMBDA c : c.id # Str(id))
    IN  IF Len(kept) = Len(contacts) THEN Out(kept, 404, NotFound)
        ELSE Out(kept, 200, [message |-> "Contact deleted successfully"])

ArrGetContacts ==
    /\ server = "array"
    /\ contactsArr' = getContactsArr(contactsArr).contacts
    /\ UNCHANGED <<server, contactsMap, db, table, listening, candidate, report, seed, search, client, collation>>

ArrPostContact(body) ==
    /\ server = "array"
    /\ contactsArr' = postContactArr(contactsArr, body).contacts
    /\ Len(contactsArr') <= MaxContacts
    /\ UNCHANGED <<server, contactsMap, db, table, listening, candidate, report, seed, search, client, collation>>

ArrPutContact(id, body) ==
    /\ server = "array"
    /\ contactsArr' = putContactArr(contactsArr, id, body).contacts
    /\ UNCHANGED <<server, contactsMap, db, table, listening, candidate, report, seed, search, client, collation>>

ArrDeleteContact(id) ==
    /\ server = "array"
    /\ contactsArr' = deleteContactArr(contactsArr, id).contacts
    /\ UNCHANGED <<server, contactsMap, db, table, listening, candidate, report, seed, search, client, collation>>

NextArr ==
    \/ ArrGetContacts
    \/ \E body \in ArrPostBodies : ArrPostContact(body)
    \/ \E id \in PathIds, body \in PutBodies : ArrPutContact(id, body)
    \/ \E id \in PathIds : ArrDeleteContact(id)

(***************************************************************************)
(* The MySQL-backed server (part_000).  The table is the one of lines      *)
(* 55-62: id is the primary key, the columns have the VARCHAR widths below *)
(* and a statement that breaks one of them fails (strict SQL mode, the     *)
(* default); ids are compared character by character.  db.execute throws   *)
(* when db is undefined or when a bind parameter is undefined.             *)
(***************************************************************************)
IdWidth == 10
NameWidth == 50
PhoneWidth == 15
AddressWidth == 200
EmailWidth == 100

\* Validation functions (lines 107-109): RegExp.test converts its argument to
\* a string, .length of a number is undefined and compares false.
validateEmailSql(email) ==
    IF ~Truthy(email) THEN "Email is required"
    ELSE IF emailRegex(JsString(email)) THEN null ELSE "Invalid email"

validatePhoneSql(phone) ==
    IF ~Truthy(phone) THEN "Phone is required"
    ELSE IF phoneRegex(JsString(phone)) THEN null ELSE "Invalid phone"

validateAddressSql(address) ==
    IF Truthy(address) /\ IsStr(address) /\ Len(address.v) > MaxAddressLen
    THEN "Address must be 200 characters or less" ELSE null

\* validateContact (lines 110-122)
validateContactSql(contact) ==
    Report([f \in Fields |->
        CASE f = "id" ->
                 IF ~Truthy(contact.id)
                    \/ (IsStr(contact.id) /\ Len(contact.id.v) > MaxIdLen)
                 THEN "ID must be 10 characters or less" ELSE null
          [] f = "firstName" ->
                 IF ~Truthy(contact.firstName) THEN "First name is required" ELSE null
          [] f = "lastName" ->
                 IF ~Truthy(contact.lastName) THEN "Last name is required" ELSE null
          [] f = "email" -> validateEmailSql(contact.email)
          [] f = "phone" -> validatePhoneSql(contact.phone)
          [] f = "address" -> validateAddressSql(contact.address)])

\* The column values of a statement's bind parameters.
Row(c) == [f \in Fields |-> JsString(c[f])]

\* execute rejects a statement one of whose bind parameters is undefined
BindsDefined(c) == \A f \in Fields : c[f] # Undef

\* The weight of a character in the collation of the id column: that of the
\* Unicode collation (letters without regard to case) under 0900_ai_ci, the
\* code of the upper-case letter under general_ci.
SqlWeight(c) ==
    IF collation = "0900_ai_ci" THEN Primary(c)
    ELSE IF c \in LowerChars THEN CharCode(c) - 32 ELSE CharCode(c)

SqlWeights(s, n) ==
    [i \in 1..n |-> IF i <= Len(s) THEN SqlWeight(s[i]) ELSE SqlWeight(" ")]

\* a compared with b in the collation of the id column (-1, 0, 1): under
\* general_ci the shorter string is padded with spaces.
SqlCmp(a, b) ==
    IF collation = "general_ci"
    THEN LET n == IF Len(a) < Len(b) THEN Len(b) ELSE Len(a)
         IN  SeqCmp(SqlWeights(a, n), SqlWeights(b, n))
    ELSE SeqCmp(SqlWeights(a, Len(a)), SqlWeights(b, Len(b)))

\* `id = ?` and the uniqueness of the primary key
SqlEq(a, b) == SqlCmp(a, b) = 0

\* A value fits its VARCHAR column when only spaces lie beyond the width: these
\* are cut with a warning in every SQL mode.
Fits(s, width) == \A i \in (width + 1)..Len(s) : s[i] = " "

Cut(s, width) == SubSeq(s, 1, IF Len(s) < width THEN Len(s) ELSE width)

\* the row stored for the bind parameters c
CutRow(c) ==
    [id |-> Cut(JsString(c.id), IdWidth),
     firstName |-> Cut(JsString(c.firstName), NameWidth),
     lastName |-> Cut(JsString(c.lastName), NameWidth),
     phone |-> Cut(JsString(c.phone), PhoneWidth),
     address |-> Cut(JsString(c.address), AddressWidth),
     email |-> Cut(JsString(c.email), EmailWidth)]

FitsColumns(c) ==
    /\ Fits(JsString(c.id), IdWidth)
    /\ Fits(JsString(c.firstName), NameWidth)
    /\ Fits(JsString(c.lastName), NameWidth)
    /\ Fits(JsString(c.phone), PhoneWidth)
    /\ Fits(JsString(c.address), AddressWidth)
    /\ Fits(JsString(c.email), EmailWidth)

\* the rows that `WHERE id = ?` selects
Matching(rows, id) == {r \in rows : SqlEq(r.id, id)}

\* db.execute('INSERT INTO contacts ... VALUES (?, ?, ?, ?, ?, ?)'): TRUE when
\* the statement succeeds.
InsertSucceeds(conn, rows, c) ==
    /\ conn = "connected"
    /\ BindsDefined(c)
    /\ FitsColumns(c)
    /\ Matching(rows, CutRow(c).id) = {}

\* db.execute('UPDATE contacts SET ... WHERE id = ?'): TRUE when it succeeds; a
\* value too wide for its column fails the statement when a row is assigned.
UpdateSucceeds(conn, rows, c) ==
    /\ conn = "connected"
    /\ BindsDefined(c)
    /\ Matching(rows, c.id.v) # {} => FitsColumns([c EXCEPT !.id = Str(<<>>)])

\* GET /contacts (lines 129-138): SELECT * FROM contacts ORDER BY id
getContactsSql(conn, rows) ==
    IF conn # "connected" THEN Out(rows, 500, [error |-> "Database error"])
    ELSE Out(rows, 200,
             SortBy(CHOOSE s \in [1..Cardinality(rows) -> rows] :
                        \A r \in rows : \E i \in DOMAIN s : s[i] = r,
                    {p \in rows \X rows : SqlCmp(p[1].id, p[2].id) < 0}))

\* POST /contacts (lines 146-164)
postContactSql(conn, rows, body) ==
    LET validationErrors == validateContactSql(body)
    IN  IF DOMAIN validationErrors.errors # {}
        THEN Out(rows, 400, ValidationFailed(validationErrors.errors))
        ELSE IF InsertSucceeds(conn, rows, body)
        THEN Out(rows \cup {CutRow(body)}, 201,
                 [message |-> "Contact added successfully"])
        ELSE Out(rows, 400, [error |-> "Duplicate ID or database error"])

\* PUT /contacts/:id (lines 173-196): the UPDATE assigns every column but id
putContactSql(conn, rows, id, body) ==
    LET contact == [body EXCEPT !.id = Str(id)]
        validationErrors == validateContactSql(contact)
    IN  IF DOMAIN validationErrors.errors # {}
        THEN Out(rows, 400, ValidationFailed(validationErrors.errors))
        ELSE IF ~UpdateSucceeds(conn, rows, contact)
        THEN Out(rows, 500, [error |-> "Database error"])
        ELSE IF Matching(rows, id) = {}
        THEN Out(rows, 404, NotFound)
        ELSE Out((rows \ Matching(rows, id))
                     \cup {[CutRow(contact) EXCEPT !.id = r.id] : r \in Matching(rows, id)},
                 200, [message |-> "Contact updated successfully"])

\* DELETE /contacts/:id (lines 204-218)
deleteContactSql(conn, rows, id) ==
    IF conn # "connected" THEN Out(rows, 500, [error |-> "Database error"])
    ELSE IF Matching(rows, id) = {} THEN Out(rows, 404, NotFound)
    ELSE Out(rows \ Matching(rows, id), 200,
             [message |-> "Contact deleted successfully"])

\* {id, firstName:"Al", lastName:"Wu", phone:"555-123-4567", address:"Elm",
\*  email:"al@x.com"}
Ed(id) == [Al(id) EXCEPT !.phone = Str(sPhone)]

sA0 == <<"A", "0">>
\* "Jo" followed by 49 spaces: 51 characters
sJoPad == [i \in 1..(NameWidth + 1) |-> IF i = 1 THEN "J" ELSE IF i = 2 THEN "o" ELSE " "]

SqlPostBodies ==
    {Ed(Str(id)) : id \in Ids} \cup {Jo(Str(sA1)), Al(Str(sA1)), Ed(Num(7))}
    \cup {[Ed(Str(sa0)) EXCEPT !.phone = Str(sBad)],
          [Ed(Str(sa0)) EXCEPT !.firstName = Str(<<" ">>)],
          [Ed(Str(sA0)) EXCEPT !.firstName = Str(sJoPad)]}

\* :id of PUT and DELETE sent to the MySQL-backed server
SqlPathIds == PathIds \cup {sA0}

SqlPutBodies == {BadPhone, NoBody, Al(Undef), Ed(Undef), Jo(Undef)}

\* The start-up of lines 227-234: initializeDatabase (lines 51-68) connects or
\* logs the error and leaves db undefined; then the server listens.
SqlStartup ==
    /\ server = "mysql"
    /\ ~listening
    /\ db' \in {"connected", "undefined"}
    /\ listening' = TRUE
    /\ UNCHANGED <<server, contactsArr, contactsMap, table, candidate, report, seed, search, client, collation>>

SqlGetContacts ==
    /\ server = "mysql" /\ listening
    /\ table' = getContactsSql(db, table).contacts
    /\ UNCHANGED <<server, contactsArr, contactsMap, db, listening, candidate, report, seed, search, client, collation>>

SqlPostContact(body) ==
    /\ server = "mysql" /\ listening
    /\ table' = postContactSql(db, table, body).contacts
    /\ Cardinality(table') <= MaxContacts
    /\ UNCHANGED <<server, contactsArr, contactsMap, db, listening, candidate, report, seed, search, client, collation>>

SqlPutContact(id, body) ==
    /\ server = "mysql" /\ listening
    /\ table' = putContactSql(db, table, id, body).contacts
    /\ UNCHANGED <<server, contactsArr, contactsMap, db, listening, candidate, report, seed, search, client, collation>>

SqlDeleteContact(id) ==
    /\ server = "mysql" /\ listening
    /\ table' = deleteContactSql(db, table, id).contacts
    /\ UNCHANGED <<server, contactsArr, contactsMap, db, listening, candidate, report, seed, search, client, collation>>

NextSql ==
    \/ SqlStartup
    \/ SqlGetContacts
    \/ \E body \in SqlPostBodies : SqlPostContact(body)
    \/ \E id \in SqlPathIds, body \in SqlPutBodies : SqlPutContact(id, body)
    \/ \E id \in SqlPathIds : SqlDeleteContact(id)

(***************************************************************************)
(* Specifications                                                          *)
(***************************************************************************)
Init ==
    /\ server \in {"array", "map", "mysql"}
    /\ contactsArr = <<>>
    /\ contactsMap = <<>>
    /\ db = "undefined"
    /\ table = {}
    /\ listening = FALSE
    /\ candidate = NoBody
    /\ report = <<>>
    /\ seed = NoTestData
    /\ search = NoSearch
    /\ client = NoClient
    /\ collation \in Collations

Next == NextArr \/ NextMap \/ NextSql

\* one of the three servers
Spec == Init /\ [][Next]_vars

\* the Map-backed server alone
InitMap == Init /\ server = "map"
SpecMap == InitMap /\ [][NextMap]_vars

(***************************************************************************)
(* Properties.  A handler is an operator of the store and of the request,  *)
(* so a property of a request is stated for every request that can be sent *)
(* in the current state.                                                   *)
(***************************************************************************)
\* The field rules (id, firstName, lastName, phone, email, address).
PassesRules(contact) == Passed(Report(fieldErrors(contact, FALSE, {})))

\* ids asked for: those the clients store, the test ids, and ids never stored
ProbeIds ==
    Ids \cup {NatToString(i) : i \in 0..PerfCount}
        \cup {<<>>, <<"A">>, <<"A", "1", " ", " ">>, <<" ", "A", "1">>, <<"a", "1">>,
               <<"B", "2">>, <<"x", "x">>}

\* s is in strictly ascending lexicographic (code unit) order of id
AscendingIds(s) == \A i, j \in 1..Len(s) : i < j => StrLess(s[i].id.v, s[j].id.v)

\* s and t hold the same elements the same number of times
SameElements(s, t) ==
    /\ Len(s) = Len(t)
    /\ \A i \in 1..Len(s) :
           Cardinality({j \in 1..Len(s) : s[j] = s[i]})
               = Cardinality({j \in 1..Len(t) : t[j] = s[i]})

\* C1: every contact held in the store passes all field rules; no partial or
\* invalid record is ever present (array-backed and Map-backed servers).
C1_StoredContactsValid ==
    /\ \A i \in 1..Len(contactsArr) : PassesRules(contactsArr[i])
    /\ \A i \in 1..Len(contactsMap) : PassesRules(contactsMap[i].value)

\* A payload with an invalid field: a supplied field that fails its rule.
HasInvalidField(body) ==
    \/ Truthy(body.phone) /\ validatePhone(body.phone) # null
    \/ Truthy(body.email) /\ validateEmail(body.email) # null
    \/ Truthy(body.address) /\ validateAddress(body.address) # null

\* C2: update of an existing id with an invalid field in the payload answers 400
\* and leaves the prior record unchanged: a get or listAll issued afterwards
\* returns the field values the record had before (no partial write).
C2_InvalidUpdateLeavesRecord ==
    \A id \in PathIds, body \in PutBodies :
        /\ (server = "map" /\ MapHas(contactsMap, id) /\ HasInvalidField(body)) =>
              LET out == putContact(contactsMap, id, body)
              IN  /\ out.res.status = 400
                  /\ getContact(out.contacts, id).res.json = MapGet(contactsMap, id)
                  /\ getContacts(out.contacts).res.json = getContacts(contactsMap).res.json
        /\ (server = "array" /\ HasInvalidField(body)
               /\ \E i \in 1..Len(contactsArr) : contactsArr[i].id = Str(id)) =>
              LET out == putContactArr(contactsArr, id, body)
              IN  /\ out.res.status = 400
                  /\ getContactsArr(out.contacts).res.json = contactsArr

\* C3: in the Map-backed server, add of an id that is already a key of the store
\* is rejected and leaves the store unchanged, for every id the length rule
\* accepts, whatever white space it carries.
C3_DuplicateAddRejected ==
    server = "map" =>
        \A body \in PostBodies :
            (IsStr(body.id) /\ MapHas(contactsMap, body.id.v)) =>
                LET out == postContact(contactsMap, body)
                IN  out.res.status = 400 /\ out.contacts = contactsMap

\* C4: in the array-backed server the contacts array never holds two entries
\* with the same id.
C4_ArrayIdsUnique ==
    \A i, j \in 1..Len(contactsArr) :
        i # j => contactsArr[i].id # contactsArr[j].id

\* C5: in the Map-backed server GET /contacts returns every stored contact exactly
\* once, in strictly ascending lexicographic order of id.
C5_ListAscending ==
    server = "map" =>
        LET listed == getContacts(contactsMap).res.json
        IN  SameElements(listed, MapValues(contactsMap)) /\ AscendingIds(listed)

\* C6: in the array-backed server GET /contacts returns the contacts in ascending
\* id order whatever the insertion order.
C6_ArrayListAscending ==
    server = "array" => AscendingIds(getContactsArr(contactsArr).res.json)

\* C7: GET /contacts/:id agrees with key membership: the binary search answers
\* 200 with the stored contact exactly when id is a key of the store, and 404
\* exactly when it is not.
C7_GetAgreesWithMembership ==
    server = "map" =>
        \A id \in ProbeIds :
            LET out == getContact(contactsMap, id)
            IN  IF MapHas(contactsMap, id)
                THEN out.res.status = 200 /\ out.res.json = MapGet(contactsMap, id)
                ELSE out.res.status = 404

\* C7 witness: a store of client and test contacts in which the search finds a
\* key in the lower half, one in the upper half, and misses an absent id.
C7_Witness ==
    /\ server = "map"
    /\ Len(contactsMap) >= 4
    /\ Stored(MapKeys(contactsMap)) >= 1
    /\ LET sortedIds == sort(MapKeys(contactsMap))
       IN  /\ getContact(contactsMap, sortedIds[1]).res.status = 200
           /\ getContact(contactsMap, sortedIds[Len(sortedIds)]).res.status = 200
    /\ \E id \in ProbeIds : getContact(contactsMap, id).res.status = 404

\* C8: a successful add followed by get of the same id, with no remove or update
\* of that id in between, returns the six fields of the added candidate: the
\* add stores the candidate, and no request other than a remove or an update
\* of the id (another add, a read, GET /performance) changes the stored record.
C8_AddThenGet ==
    server = "map" =>
        /\ \A body \in PostBodies :
               LET out == postContact(contactsMap, body)
               IN  out.res.status = 201 =>
                       getContact(out.contacts, body.id.v).res.json = body
        /\ \A id \in Ids :
               MapHas(contactsMap, id) =>
                   LET stored == getContact(contactsMap, id).res.json
                       Same(after) == getContact(after, id).res.json = stored
                   IN  /\ \A body \in PostBodies : Same(postContact(contactsMap, body).contacts)
                       /\ \A other \in Ids : Same(getContact(contactsMap, other).contacts)
                       /\ Same(getContacts(contactsMap).contacts)
                       /\ Same(getPerformance(contactsMap).contacts)

\* C9: add of a candidate that passes validation and whose id is not in the
\* store inserts the record and answers 201 (Map-backed server, and MySQL-backed
\* server with its connection established).
C9_ValidAddCreates ==
    /\ server = "map" =>
          \A body \in PostBodies :
              (PassesRules(body) /\ ~MapHas(contactsMap, body.id.v)) =>
                  LET out == postContact(contactsMap, body)
                  IN  /\ out.res.status = 201
                      /\ MapHas(out.contacts, body.id.v)
                      /\ MapGet(out.contacts, body.id.v) = body
    /\ (server = "mysql" /\ listening /\ db = "connected") =>
          \A body \in SqlPostBodies :
              (Passed(validateContactSql(body))
                 /\ \A r \in table : r.id # JsString(body.id)) =>
                  LET out == postContactSql(db, table, body)
                  IN  out.res.status = 201 /\ Row(body) \in out.contacts

\* C10: update of an id that is not in the store answers 404 and leaves the store
\* unchanged, whatever the payload (array-backed and Map-backed servers, and
\* MySQL-backed server with its connection established).
C10_UpdateAbsentNotFound ==
    /\ server = "array" =>
          \A id \in PathIds, body \in PutBodies :
              (\A i \in 1..Len(contactsArr) : contactsArr[i].id # Str(id)) =>
                  LET out == putContactArr(contactsArr, id, body)
                  IN  out.res.status = 404 /\ out.contacts = contactsArr
    /\ server = "map" =>
          \A id \in PathIds, body \in PutBodies :
              ~MapHas(contactsMap, id) =>
                  LET out == putContact(contactsMap, id, body)
                  IN  out.res.status = 404 /\ out.contacts = contactsMap
    /\ (server = "mysql" /\ listening /\ db = "connected") =>
          \A id \in PathIds, body \in SqlPutBodies :
              (\A r \in table : r.id # id) =>
                  LET out == putContactSql(db, table, id, body)
                  IN  out.res.status = 404 /\ out.contacts = table

\* s without its element of index i
Without(s, i) == SubSeq(s, 1, i - 1) \o SubSeq(s, i + 1, Len(s))

\* C11: remove of an existing id deletes exactly that one record and leaves every
\* other record unchanged; a second remove of the same id answers 404 and
\* changes nothing; get of the id after the remove answers 404 (Map-backed and
\* array-backed servers; the array-backed server has no get, its list is read).
C11_RemoveExactlyOne ==
    /\ server = "map" =>
          \A id \in PathIds :
              MapHas(contactsMap, id) =>
                  LET out == deleteContact(contactsMap, id)
                      again == deleteContact(out.contacts, id)
                  IN  /\ out.res.status = 200
                      /\ \E i \in 1..Len(contactsMap) :
                             contactsMap[i].key = id /\ out.contacts = Without(contactsMap, i)
                      /\ again.res.status = 404 /\ again.contacts = out.contacts
                      /\ getContact(out.contacts, id).res.status = 404
    /\ server = "array" =>
          \A id \in PathIds :
              (\E i \in 1..Len(contactsArr) : contactsArr[i].id = Str(id)) =>
                  LET out == deleteContactArr(contactsArr, id)
                      again == deleteContactArr(out.contacts, id)
                  IN  /\ out.res.status = 200
                      /\ \E i \in 1..Len(contactsArr) :
                             contactsArr[i].id = Str(id) /\ out.contacts = Without(contactsArr, i)
                      /\ again.res.status = 404 /\ again.contacts = out.contacts
                      /\ \A c \in Range(getContactsArr(out.contacts).res.json) : c.id # Str(id)

\* the ids of the stored contacts, in the order of the store
StoredIds ==
    CASE server = "array" -> [i \in 1..Len(contactsArr) |-> contactsArr[i].id.v]
      [] server = "map" -> [i \in 1..Len(contactsMap) |-> contactsMap[i].value.id.v]
      [] OTHER -> <<>>

\* C12: update never changes the id of a stored record and ignores an id in the
\* payload: for the same path id and the same other fields the response and the
\* resulting store are the same whether the payload carries no id, the path id
\* or another id.
C12_PayloadIdIgnored ==
    \A id \in PathIds, payloadId \in {Str(i) : i \in Ids} :
        /\ server = "array" =>
              \A body \in PutBodies :
                  LET out == putContactArr(contactsArr, id, [body EXCEPT !.id = payloadId])
                  IN  /\ out = putContactArr(contactsArr, id, [body EXCEPT !.id = Undef])
                      /\ [i \in 1..Len(out.contacts) |-> out.contacts[i].id.v] = StoredIds
        /\ server = "map" =>
              \A body \in PutBodies :
                  LET out == putContact(contactsMap, id, [body EXCEPT !.id = payloadId])
                  IN  /\ out = putContact(contactsMap, id, [body EXCEPT !.id = Undef])
                      /\ MapKeys(out.contacts) = MapKeys(contactsMap)
                      /\ [i \in 1..Len(out.contacts) |-> out.contacts[i].value.id.v]
                             = StoredIds
        /\ (server = "mysql" /\ listening) =>
              \A body \in SqlPutBodies :
                  LET out == putContactSql(db, table, id, [body EXCEPT !.id = payloadId])
                  IN  /\ out = putContactSql(db, table, id, [body EXCEPT !.id = Undef])
                      /\ {r.id : r \in out.contacts} = {r.id : r \in table}

\* C13: in the Map-backed server a successful update leaves the record with every
\* field of the payload equal to the value sent and every field absent from the
\* payload equal to its prior value, and the merged record is validated before
\* anything is committed: an update that is not successful leaves the store as
\* it was.
C13_MergeValidatedBeforeCommit ==
    server = "map" =>
        \A id \in PathIds, body \in PutBodies \cup {NoAddress} :
            MapHas(contactsMap, id) =>
                LET prior == MapGet(contactsMap, id)
                    out == putContact(contactsMap, id, body)
                IN  /\ out.res.status = 200 =>
                           \A f \in Fields \ {"id"} :
                               MapGet(out.contacts, id)[f]
                                   = IF body[f] # Undef THEN body[f] ELSE prior[f]
                    /\ out.res.status # 200 => out.contacts = contactsMap

(***************************************************************************)
(* validateContact as a function of its candidate.  The candidates are     *)
(* records whose fields are JSON strings or are missing; each field takes  *)
(* values that pass and values that fail its rule.  The store is empty or  *)
(* holds the contact of id "A1".                                           *)
(***************************************************************************)
MaxValidations == 2

sB2 == <<"B", "2">>
sLongId == [i \in 1..(MaxIdLen + 1) |-> "x"]
sLongAddress == [i \in 1..(MaxAddressLen + 1) |-> "x"]
sEmailNoDot == <<"j", "o", "@", "x">>

FieldValues ==
    [id |-> {Undef, Str(<<" ", " ">>), Str(sA1), Str(sA1sp), Str(sB2), Str(sLongId)},
     firstName |-> {Undef, Str(<<" ">>), Str(sJo)},
     lastName |-> {Str(<<>>), Str(sLi)},
     phone |-> {Undef, Str(sBad), Str(sPhone)},
     address |-> {Undef, Str(sLongAddress), Str(sElm)},
     email |-> {Str(sEmailNoDot), Str(sEmailJo)}]

Candidates ==
    {Body(id, firstName, lastName, phone, address, email) :
        id \in FieldValues.id, firstName \in FieldValues.firstName,
        lastName \in FieldValues.lastName, phone \in FieldValues.phone,
        address \in FieldValues.address, email \in FieldValues.email}

\* validateContact (part_001 lines 78-92) called on candidate, an object the
\* caller keeps, against the global contacts: the caller gets the report, and
\* the store and the candidate are what the call left of them.
MapValidateContact(isNewContact) ==
    /\ server = "map"
    /\ Len(report) < MaxValidations
    /\ LET returned == validateContact(contactsMap, candidate, isNewContact)
       IN  /\ report' = Append(report, [isNewContact |-> isNewContact,
                                        errors |-> returned.errors])
           /\ contactsMap' = returned.contacts
           /\ candidate' = returned.contact
    /\ UNCHANGED <<server, contactsArr, db, table, listening, seed, search, client,
                   collation>>

\* validateContact (server.js lines 94-127) called on candidate
ArrValidateContact(isNewContact) ==
    /\ server = "array"
    /\ Len(report) < MaxValidations
    /\ LET returned == validateContactArr(contactsArr, candidate, isNewContact)
       IN  /\ report' = Append(report, [isNewContact |-> isNewContact,
                                        errors |-> returned.errors])
           /\ contactsArr' = returned.contacts
           /\ candidate' = returned.contact
    /\ UNCHANGED <<server, contactsMap, db, table, listening, seed, search, client,
                   collation>>

InitValidate ==
    /\ report = <<>>
    /\ seed = NoTestData
    /\ search = NoSearch
    /\ client = NoClient
    /\ candidate \in Candidates
    /\ server \in {"array", "map"}
    /\ collation \in Collations
    /\ contactsArr \in IF server = "array"
                        THEN {<<>>, postContactArr(<<>>, Jo(Str(sA1))).contacts}
                        ELSE {<<>>}
    /\ contactsMap \in IF server = "map"
                        THEN {<<>>, postContact(<<>>, Jo(Str(sA1))).contacts}
                        ELSE {<<>>}
    /\ db = "undefined"
    /\ table = {}
    /\ listening = FALSE

NextValidate ==
    \/ \E isNewContact \in BOOLEAN : MapValidateContact(isNewContact)
    \/ \E isNewContact \in BOOLEAN : ArrValidateContact(isNewContact)

\* validateContact applied to every candidate, against each store
SpecValidate == InitValidate /\ [][NextValidate]_vars

\* a candidate that fails no rule in a store that does not hold "B2"
Valid == Jo(Str(sB2))

\* The field f, of value v, fails its rule: the report names it for the
\* candidate whose other fields are valid.
FailsRule(f, v, isNewContact) ==
    LET alone == [Valid EXCEPT ![f] = v]
    IN  f \in DOMAIN (IF server = "map"
                      THEN validateContact(contactsMap, alone, isNewContact)
                      ELSE validateContactArr(contactsArr, alone, isNewContact)).errors

\* C14: validateContact never short-circuits.  The fields named in the report of
\* a candidate are exactly the fields that fail their rule, so a candidate that
\* fails k rules has a report of k entries and the report is empty exactly when
\* all the rules pass (Map-backed and array-backed servers, add and update).
C14_ReportNamesFailingFields ==
    \A i \in 1..Len(report) :
        DOMAIN report[i].errors
            = {f \in Fields : FailsRule(f, candidate[f], report[i].isNewContact)}

\* C14 witness: against a store that holds "A1", the add of the candidate
\* {id:"A1", firstName:" ", lastName:"", phone:"bad", address: 201 characters,
\* email:"jo@x"} has been validated and its report names the six fields.
C14_Witness ==
    /\ server = "map"
    /\ MapHas(contactsMap, sA1)
    /\ candidate = Body(Str(sA1), Str(<<" ">>), Str(<<>>), Str(sBad),
                        Str(sLongAddress), Str(sEmailNoDot))
    /\ \E i \in 1..Len(report) :
           report[i].isNewContact /\ DOMAIN report[i].errors = Fields

BlankNames == {Undef, Str(<<>>), Str(<<" ">>), Str(<<" ", "\n">>)}

\* res is 400 Validation failed and its report names field
Rejects(res, field) ==
    /\ res.status = 400
    /\ "details" \in DOMAIN res.json
    /\ field \in DOMAIN res.json.details

\* C16: in every server, add and update reject with a validation report that
\* names the field a candidate whose firstName or lastName is missing or is
\* empty after trimming white space.  The candidate of an update is the payload
\* (array-backed and MySQL-backed servers) or the merged record (Map-backed
\* server); the MySQL-backed server has its connection established.
C16_BlankNameRejected ==
    \A f \in {"firstName", "lastName"}, v \in BlankNames :
        /\ server = "array" =>
              /\ Rejects(postContactArr(contactsArr, [Valid EXCEPT ![f] = v]).res, f)
              /\ \A id \in PathIds :
                     (\E c \in Range(contactsArr) : c.id = Str(id)) =>
                         Rejects(putContactArr(contactsArr, id,
                                               [Al(Str(id)) EXCEPT ![f] = v]).res, f)
        /\ server = "map" =>
              /\ Rejects(postContact(contactsMap, [Valid EXCEPT ![f] = v]).res, f)
              /\ \A id \in PathIds :
                     (/\ MapHas(contactsMap, id)
                      /\ LET merged == merge(MapGet(contactsMap, id),
                                             [NoBody EXCEPT ![f] = v])[f]
                         IN  ~Truthy(merged) \/ Trim(merged.v) = <<>>) =>
                         Rejects(putContact(contactsMap, id, [NoBody EXCEPT ![f] = v]).res, f)
        /\ (server = "mysql" /\ listening /\ db = "connected") =>
              /\ Rejects(postContactSql(db, table, [Ed(Str(sB2)) EXCEPT ![f] = v]).res, f)
              /\ \A id \in PathIds :
                     (\E r \in table : r.id = id) =>
                         Rejects(putContactSql(db, table, id,
                                               [Ed(Undef) EXCEPT ![f] = v]).res, f)

\* after holds no key that before does not hold, and no other value under a key
NothingCreated(before, after) ==
    \A k \in Range(MapKeys(after)) :
        MapHas(before, k) /\ MapGet(after, k) = MapGet(before, k)

\* C17: in the Map-backed server a contact is created or replaced only by POST
\* /contacts, after it passed validation with the duplicate check: GET /contacts,
\* GET /contacts/:id, GET /performance and DELETE insert and overwrite nothing,
\* and what a POST stores passed the rules under a key the store did not hold.
C17_OnlyAddCreates ==
    server = "map" =>
        /\ NothingCreated(contactsMap, getContacts(contactsMap).contacts)
        /\ \A id \in ProbeIds : NothingCreated(contactsMap, getContact(contactsMap, id).contacts)
        /\ \A id \in ProbeIds : NothingCreated(contactsMap, deleteContact(contactsMap, id).contacts)
        /\ NothingCreated(contactsMap, getPerformance(contactsMap).contacts)
        /\ \A body \in PostBodies :
               LET out == postContact(contactsMap, body)
               IN  NothingCreated(contactsMap, out.contacts)
                       \/ (PassesRules(body) /\ ~MapHas(contactsMap, body.id.v))

\* C18: after any sequence of operations the id of every stored contact, as
\* stored and as used as the lookup key, is a non-empty string of at most 10
\* characters.
C18_StoredIdLength ==
    /\ \A c \in Range(contactsArr) :
           IsStr(c.id) /\ Len(c.id.v) \in 1..MaxIdLen
    /\ \A e \in Range(contactsMap) :
           /\ Len(e.key) \in 1..MaxIdLen
           /\ IsStr(e.value.id) /\ Len(e.value.id.v) \in 1..MaxIdLen
    /\ \A r \in table : Len(r.id) \in 1..MaxIdLen

\* C19: after any sequence of operations the address of every stored contact is
\* absent or a string of at most 200 characters, as stored.
C19_StoredAddressLength ==
    /\ \A c \in Range(contactsArr) :
           c.address = Undef \/ (IsStr(c.address) /\ Len(c.address.v) <= MaxAddressLen)
    /\ \A e \in Range(contactsMap) :
           e.value.address = Undef
               \/ (IsStr(e.value.address) /\ Len(e.value.address.v) <= MaxAddressLen)
    /\ \A r \in table : Len(r.address) <= MaxAddressLen

\* before and after hold the same keys with the same contacts
SameStore(before, after) ==
    /\ Range(MapKeys(after)) = Range(MapKeys(before))
    /\ Len(after) = Len(before)
    /\ \A k \in Range(MapKeys(before)) : MapGet(after, k) = MapGet(before, k)

\* C20: the reads have no side effect.  After GET /contacts and after GET
\* /contacts/:id, for every id, the store holds the same keys and the same
\* contacts with the same field values as before (Map-backed server; also the
\* lists of the array-backed and MySQL-backed servers).
C20_ReadsLeaveStore ==
    /\ server = "map" =>
          /\ SameStore(contactsMap, getContacts(contactsMap).contacts)
          /\ \A id \in ProbeIds : SameStore(contactsMap, getContact(contactsMap, id).contacts)
    /\ server = "array" => getContactsArr(contactsArr).contacts = contactsArr
    /\ server = "mysql" => getContactsSql(db, table).contacts = table

\* C20 witness: a store of two contacts or more that GET /contacts lists in
\* another order than the store holds them, and in which GET /contacts/:id finds
\* a contact.
C20_Witness ==
    /\ server = "map"
    /\ Len(contactsMap) >= 2
    /\ getContacts(contactsMap).res.json # MapValues(contactsMap)
    /\ \E id \in PathIds : getContact(contactsMap, id).res.status = 200

\* res is 400 Validation failed with a report that names a field or more
ValidationAnswer(res) ==
    /\ res.status = 400
    /\ "details" \in DOMAIN res.json
    /\ DOMAIN res.json.details # {}

\* C21: the responses of the Map-backed server follow the outcome mapping.  POST
\* answers 201 exactly when the record was inserted and otherwise 400 with a
\* field-error report; PUT answers 404 when the id is absent, 200 exactly when
\* the update was committed and 400 with the report, nothing committed, on a
\* validation failure; DELETE answers 200 exactly when a record was removed and
\* otherwise 404; GET /contacts/:id answers 200 or 404.
C21_OutcomeMapping ==
    server = "map" =>
        /\ \A body \in PostBodies :
               LET out == postContact(contactsMap, body)
               IN  IF out.res.status = 201
                   THEN /\ MapHas(out.contacts, body.id.v)
                        /\ MapGet(out.contacts, body.id.v) = body
                   ELSE ValidationAnswer(out.res) /\ out.contacts = contactsMap
        /\ \A id \in PathIds, body \in PutBodies :
               LET out == putContact(contactsMap, id, body)
               IN  IF ~MapHas(contactsMap, id)
                   THEN out.res.status = 404 /\ out.contacts = contactsMap
                   ELSE IF out.res.status = 200
                   THEN out.contacts
                            = MapSet(contactsMap, id, merge(MapGet(contactsMap, id), body))
                   ELSE ValidationAnswer(out.res) /\ out.contacts = contactsMap
        /\ \A id \in ProbeIds :
               LET out == deleteContact(contactsMap, id)
               IN  IF MapHas(contactsMap, id)
                   THEN out.res.status = 200 /\ ~MapHas(out.contacts, id)
                   ELSE out.res.status = 404 /\ out.contacts = contactsMap
        /\ \A id \in ProbeIds : getContact(contactsMap, id).res.status \in {200, 404}

\* JSON payloads with a field that is a number, and payloads with missing fields
OddBodies ==
    {[Valid EXCEPT ![f] = Num(1234567890)] : f \in Fields}
        \cup {[Valid EXCEPT ![f] = Undef] : f \in Fields} \cup {NoBody}

\* C22: for every JSON payload, with missing fields or with a field that is not
\* a string, add and update end in a declared outcome (201 or 200, 400, 404):
\* nothing is thrown out of the handler (no 500 of the error middleware), and a
\* request that did not succeed leaves the store as it was (Map-backed and
\* array-backed servers).
C22_NoThrowOnOddPayload ==
    \A body \in OddBodies :
        /\ server = "map" =>
              /\ LET out == postContact(contactsMap, body)
                 IN  /\ out.res.status \in {201, 400}
                     /\ out.res.status # 201 => out.contacts = contactsMap
              /\ \A id \in PathIds :
                     LET out == putContact(contactsMap, id, body)
                     IN  /\ out.res.status \in {200, 400, 404}
                         /\ out.res.status # 200 => out.contacts = contactsMap
        /\ server = "array" =>
              /\ LET out == postContactArr(contactsArr, body)
                 IN  /\ out.res.status \in {201, 400}
                     /\ out.res.status # 201 => out.contacts = contactsArr
              /\ \A id \in PathIds :
                     LET out == putContactArr(contactsArr, id, body)
                     IN  /\ out.res.status \in {200, 400, 404}
                         /\ out.res.status # 200 => out.contacts = contactsArr

\* C24: in the MySQL-backed server a storage failure, the connection never
\* established or a statement that fails for another reason than a duplicate
\* key, is answered with an outcome of its own: never with 400 or 404, the
\* answers of a validation failure, a duplicate key and an absent id.
C24_StorageFailureDistinct ==
    (server = "mysql" /\ listening) =>
        /\ \A body \in SqlPostBodies :
               (/\ Passed(validateContactSql(body))
                /\ \A r \in table : r.id # JsString(body.id)
                /\ ~InsertSucceeds(db, table, body)) =>
                   postContactSql(db, table, body).res.status \notin {201, 400, 404}
        /\ \A id \in PathIds, body \in SqlPutBodies :
               (/\ Passed(validateContactSql([body EXCEPT !.id = Str(id)]))
                /\ ~UpdateSucceeds(db, table, [body EXCEPT !.id = Str(id)])) =>
                   putContactSql(db, table, id, body).res.status \notin {200, 400, 404}
        /\ db # "connected" =>
               /\ getContactsSql(db, table).res.status \notin {200, 400, 404}
               /\ \A id \in PathIds :
                      deleteContactSql(db, table, id).res.status \notin {200, 400, 404}

\* C27: in the Map-backed server the order in which GET /contacts lists the ids
\* (localeCompare) is the order of the sorted key array that GET /contacts/:id
\* searches (sort() and <): both put the same one of any two stored ids first.
C27_ListOrderIsSearchOrder ==
    server = "map" =>
        LET listed == getContacts(contactsMap).res.json
        IN  [i \in 1..Len(listed) |-> listed[i].id.v] = sort(MapKeys(contactsMap))


(***************************************************************************)
(* Bulk seeding.  loadTestData of the Map-backed server (part_001 lines    *)
(* 95-122) is called at line 124 without being awaited: it runs up to its  *)
(* first await, the requests the server accepts run between its awaits,    *)
(* and the loop of lines 101-117, which holds no await, runs in one piece. *)
(* loadTestData of the MySQL-backed server (part_000 lines 71-104) is      *)
(* awaited by the start-up before the server listens.  TestData.txt is a   *)
(* sequence of lines, a line the sequence of its comma-separated parts.    *)
(***************************************************************************)
sa0pad == <<" ", "a", "0", " ">>
lineJo(id) == <<id, sJo, sLi, sPhone, <<>>, sEmailJo>>
lineAl(id) == <<id, sAl, sWu, sPhoneLong, sElm, sEmailAl>>
lineShort == <<sa0, sJo, sLi, sPhone, sEmailJo>>
lineBlank == << <<" ">> >>
lineBadPhone(id) == <<id, sJo, sLi, sBad, sElm, sEmailJo>>

Files ==
    { <<lineJo(sA1), lineShort, lineAl(sA1), lineAl(sa0pad)>>,
      <<lineBlank, lineBadPhone(s1), lineJo(s1), lineJo(sa0)>> }

\* `if (!line.trim()) continue` and `parts.length !== 6` (lines 102-107)
Skipped(parts) ==
    \/ Len(parts) = 1 /\ Trim(parts[1]) = <<>>
    \/ Len(parts) # 6

\* the contact of a line (line 109): every part trimmed
lineContact(parts) ==
    Body(Str(Trim(parts[1])), Str(Trim(parts[2])), Str(Trim(parts[3])),
         Str(Trim(parts[4])), Str(Trim(parts[5])), Str(Trim(parts[6])))

\* One turn of the loop of lines 101-117 on the Map.
loadLine(contacts, parts) ==
    IF Skipped(parts) THEN contacts
    ELSE LET contact == lineContact(parts)
             validationErrors == validateContact(contacts, contact, TRUE)
         IN  IF Passed(validationErrors)
             THEN MapSet(contacts, Trim(parts[1]), contact)
             ELSE contacts

\* The loop of lines 101-117 on the Map.
RECURSIVE loadLines(_, _)
loadLines(contacts, lines) ==
    IF lines = <<>> THEN contacts
    ELSE loadLines(loadLine(contacts, Head(lines)), Tail(lines))

\* 'INSERT IGNORE INTO contacts ...' (part_000 lines 88-91): execute throws when
\* db is undefined, and the catch of line 93 logs it; a row whose id is in the
\* table is ignored; under IGNORE a value too wide for its column is cut to
\* the column's width and the row is inserted with a warning.
insertIgnore(conn, rows, c) ==
    IF conn # "connected" THEN rows
    ELSE IF Matching(rows, CutRow(c).id) # {} THEN rows
    ELSE rows \cup {CutRow(c)}

\* One turn of the loop of part_000 lines 77-99.
loadLineSql(conn, rows, parts) ==
    IF Skipped(parts) THEN rows
    ELSE LET contact == lineContact(parts)
         IN  IF Passed(validateContactSql(contact))
             THEN insertIgnore(conn, rows, contact)
             ELSE rows

\* The loop of part_000 lines 77-99.
RECURSIVE loadLinesSql(_, _, _)
loadLinesSql(conn, rows, lines) ==
    IF lines = <<>> THEN rows
    ELSE loadLinesSql(conn, loadLineSql(conn, rows, Head(lines)), Tail(lines))

\* loadTestData has been called and awaits fs.access (part_001 line 98).
Seeding == [pc |-> "access", lines |-> <<>>, loaded |-> {}]

\* fs.access settles (line 98): the file is there, or the catch of line 119
\* ends the seeding.
SeedAccess ==
    /\ server = "map"
    /\ seed.pc = "access"
    /\ seed' \in {[seed EXCEPT !.pc = "read"], [seed EXCEPT !.pc = "done"]}
    /\ UNCHANGED <<server, contactsArr, contactsMap, db, table, listening, candidate,
                   report, search, client, collation>>

\* fs.readFile settles with the text of the file (line 99).
SeedRead(file) ==
    /\ server = "map"
    /\ seed.pc = "read"
    /\ seed' = [seed EXCEPT !.pc = "loop", !.lines = file]
    /\ UNCHANGED <<server, contactsArr, contactsMap, db, table, listening, candidate,
                   report, search, client, collation>>

\* fs.readFile rejects (line 99: the file is a directory, or was removed or
\* made unreadable since fs.access): the catch of line 119 ends the seeding.
SeedReadFails ==
    /\ server = "map"
    /\ seed.pc = "read"
    /\ seed' = [seed EXCEPT !.pc = "done"]
    /\ UNCHANGED <<server, contactsArr, contactsMap, db, table, listening, candidate,
                   report, search, client, collation>>

\* Lines 100-118, which run without a pause; loaded records the keys the loop set.
SeedLoad ==
    /\ server = "map"
    /\ seed.pc = "loop"
    /\ contactsMap' = loadLines(contactsMap, seed.lines)
    /\ seed' = [seed EXCEPT !.pc = "done",
                            !.loaded = Range(MapKeys(contactsMap'))
                                       \ Range(MapKeys(contactsMap))]
    /\ UNCHANGED <<server, contactsArr, db, table, listening, candidate, report, search, client, collation>>

\* The start-up of part_000 lines 227-234 in a directory whose TestData.txt is
\* read: initializeDatabase, loadTestData, then listen.
SqlSeedStartup(file) ==
    /\ server = "mysql"
    /\ ~listening
    /\ seed.pc = "access"
    /\ db' \in {"connected", "undefined"}
    /\ table' = loadLinesSql(db', table, file)
    /\ seed' = [pc |-> "done", lines |-> file, loaded |-> {r.id : r \in table'}]
    /\ listening' = TRUE
    /\ UNCHANGED <<server, contactsArr, contactsMap, candidate, report, search, client, collation>>

\* The start-up of part_000 lines 227-234 where fs.access or fs.readFile rejects
\* (lines 74-75): the catch of line 101 ends loadTestData before any INSERT,
\* then the server listens.
SqlSeedStartupNoFile ==
    /\ server = "mysql"
    /\ ~listening
    /\ seed.pc = "access"
    /\ db' \in {"connected", "undefined"}
    /\ seed' = [seed EXCEPT !.pc = "done"]
    /\ listening' = TRUE
    /\ UNCHANGED <<server, contactsArr, contactsMap, table, candidate, report, search,
                   client, collation>>

SeedPostBodies == {Jo(Str(sA1sp)), Al(Str(sa0)), Al(Str(s1))}
SeedPutBodies == {Al(Undef), BadPhone}
SeedIds == {sA1, sa0, s1}

InitSeed ==
    /\ server \in {"map", "mysql"}
    /\ contactsArr = <<>>
    /\ contactsMap = <<>>
    /\ db = "undefined"
    /\ table = {}
    /\ listening = FALSE
    /\ candidate = NoBody
    /\ report = <<>>
    /\ seed = Seeding
    /\ search = NoSearch
    /\ client = NoClient
    /\ collation \in Collations

NextSeed ==
    \/ SeedAccess
    \/ \E file \in Files : SeedRead(file)
    \/ SeedReadFails
    \/ SeedLoad
    \/ \E body \in SeedPostBodies : MapPostContact(body)
    \/ \E id \in SeedIds, body \in SeedPutBodies : MapPutContact(id, body)
    \/ \E id \in SeedIds : MapDeleteContact(id)
    \/ MapGetPerformance
    \/ \E file \in Files : SqlSeedStartup(file)
    \/ SqlSeedStartupNoFile
    \/ \E body \in SeedPostBodies : SqlPostContact(body)
    \/ \E id \in SeedIds : SqlDeleteContact(id)

\* a server seeding from TestData.txt while (Map) or before (MySQL) it serves
SpecSeed == InitSeed /\ [][NextSeed]_vars


\* The lines of a file that are not discarded: six parts and a record that
\* passes the field rules of the server, and among those the first of each id.
ValidLinesMap(file) ==
    {i \in 1..Len(file) :
        /\ Len(file[i]) = 6
        /\ Passed(validateContact(<<>>, lineContact(file[i]), TRUE))}

ValidLinesSql(file) ==
    {i \in 1..Len(file) :
        /\ Len(file[i]) = 6
        /\ Passed(validateContactSql(lineContact(file[i])))}

FirstOfId(file, valid) ==
    {i \in valid : \A j \in valid : j < i => lineContact(file[j]).id # lineContact(file[i]).id}

\* C23: seeding an empty store leaves exactly the records of the valid lines of
\* the file, the first line winning for a repeated id: a line with a field
\* count other than 6 or an invalid record is discarded and the lines after it
\* are still loaded.
C23_SeedingLoadsValidLines ==
    \A file \in Files :
        /\ server = "map" =>
               LET seeded == loadLines(<<>>, file)
               IN  /\ Range(MapValues(seeded))
                        = {lineContact(file[i]) : i \in FirstOfId(file, ValidLinesMap(file))}
                   /\ Len(seeded) = Cardinality(FirstOfId(file, ValidLinesMap(file)))
        /\ (server = "mysql" /\ db = "connected") =>
               loadLinesSql(db, {}, file)
                   = {Row(lineContact(file[i])) : i \in FirstOfId(file, ValidLinesSql(file))}


\* C25: in the Map-backed server, whatever requests ran between the steps of
\* the seeding, the insertion loop leaves every contact of the store as it
\* finds it, and no request that adds contacts (POST /contacts, GET
\* /performance) replaces a contact the loop has stored.  The loop is one step
\* (SeedLoad), so no request is handled in the middle of it.
C25_SeedingAndRequestsApart ==
    server = "map" =>
        /\ seed.pc = "loop" =>
               \A k \in Range(MapKeys(contactsMap)) :
                   /\ MapHas(loadLines(contactsMap, seed.lines), k)
                   /\ MapGet(loadLines(contactsMap, seed.lines), k) = MapGet(contactsMap, k)
        /\ seed.pc = "done" =>
               \A k \in seed.loaded \cap Range(MapKeys(contactsMap)) :
                   /\ \A body \in SeedPostBodies :
                          MapGet(postContact(contactsMap, body).contacts, k)
                              = MapGet(contactsMap, k)
                   /\ MapGet(getPerformance(contactsMap).contacts, k)
                          = MapGet(contactsMap, k)


\* C26: in the Map-backed server every entry of the store is filed under the
\* id of its contact, after seeding and after every request.
C26_KeyIsContactId ==
    server = "map" =>
        \A i \in 1..Len(contactsMap) : Str(contactsMap[i].key) = contactsMap[i].value.id

\* a store that holds a seeded contact, a contact added by a request and the
\* test contacts of GET /performance
C26_Witness ==
    /\ server = "map"
    /\ seed.pc = "done"
    /\ \E k \in seed.loaded : MapHas(contactsMap, k)
    /\ \E i \in 1..Len(contactsMap) :
           /\ contactsMap[i].key \notin seed.loaded
           /\ ~IsTestId(contactsMap[i].key)
    /\ \E i \in 1..Len(contactsMap) : contactsMap[i].value = testContact(0)


(***************************************************************************)
(* The loop of GET /contacts/:id (part_001 lines 218-231) step by step.    *)
(* The handler is synchronous: no other handler runs while it loops.       *)
(***************************************************************************)
SearchPostBodies == {Jo(Str(sA1)), Al(Str(sa0)), Jo(Str(sB2))}
SearchIds == {sA1, sa0, sB2, s1, NatToString(0)}

\* `Math.floor(left + (right - left) / 2)` (line 221)
Mid(left, right) == left + ((right - left) \div 2)

\* An iteration that moves left to mid where line 227 moves it past mid.
narrowKeeping(sortedIds, id, left, right) ==
    IF StrLess(sortedIds[Mid(left, right) + 1], id)
    THEN [left |-> Mid(left, right), right |-> right]
    ELSE [left |-> left, right |-> Mid(left, right) - 1]

\* The bounds after an iteration that has not found id (lines 226-230);
\* sortedIds[mid] of the code is sortedIds[mid + 1] of a sequence.
narrow(sortedIds, id, left, right) ==
    IF StrLess(sortedIds[Mid(left, right) + 1], id)
    THEN [left |-> Mid(left, right) + 1, right |-> right]
    ELSE [left |-> left, right |-> Mid(left, right) - 1]

\* lines 217-219
SearchStart(id) ==
    /\ server = "map"
    /\ search.pc = "idle"
    /\ search' = [pc |-> "loop", sortedIds |-> sort(MapKeys(contactsMap)), id |-> id,
                  left |-> 0, right |-> Len(contactsMap) - 1]
    /\ UNCHANGED <<server, contactsArr, contactsMap, db, table, listening, candidate,
                   report, seed, client, collation>>

\* the test of line 220 and one turn of lines 221-230, or the exit to line 232
SearchStep ==
    /\ server = "map"
    /\ search.pc = "loop"
    /\ search' =
           IF search.left > search.right THEN [search EXCEPT !.pc = "missing"]
           ELSE IF search.sortedIds[Mid(search.left, search.right) + 1] = search.id
           THEN [search EXCEPT !.pc = "found"]
           ELSE [search EXCEPT
                    !.left = narrow(search.sortedIds, search.id, @, search.right).left,
                    !.right = narrow(search.sortedIds, search.id, search.left, @).right]
    /\ UNCHANGED <<server, contactsArr, contactsMap, db, table, listening, candidate,
                   report, seed, client, collation>>

\* the response of lines 223-225 or 232-233 is sent
SearchEnd ==
    /\ server = "map"
    /\ search.pc \in {"found", "missing"}
    /\ search' = NoSearch
    /\ UNCHANGED <<server, contactsArr, contactsMap, db, table, listening, candidate,
                   report, seed, client, collation>>

InitSearch == Init /\ server = "map"

NextSearch ==
    \/ \E id \in SearchIds : SearchStart(id)
    \/ SearchStep
    \/ SearchEnd
    \/ search.pc = "idle" /\ \E body \in SearchPostBodies : MapPostContact(body)
    \/ search.pc = "idle" /\ \E id \in SearchIds : MapDeleteContact(id)
    \/ search.pc = "idle" /\ MapGetPerformance

\* the Map-backed server with its lookups run step by step; the loop is
\* synchronous code, so it always takes its next step
SpecSearch == InitSearch /\ [][NextSearch]_vars /\ WF_vars(SearchStep)

\* While the loop runs: the bounds stay within one position of the array, and
\* when a turn is taken mid lies between them and is an index of sortedIds.
SearchBoundsOk ==
    search.pc = "loop" =>
        /\ 0 <= search.left
        /\ search.right <= Len(search.sortedIds) - 1
        /\ search.left <= search.right =>
               /\ search.left <= Mid(search.left, search.right)
               /\ Mid(search.left, search.right) <= search.right
               /\ Mid(search.left, search.right) \in 0..(Len(search.sortedIds) - 1)

\* The loop ends with the answer of the lookup.
SearchAnswerOk ==
    /\ search.pc = "found" => \E i \in DOMAIN search.sortedIds : search.sortedIds[i] = search.id
    /\ search.pc = "missing" =>
           /\ search.left > search.right
           /\ \A i \in DOMAIN search.sortedIds : search.sortedIds[i] # search.id

\* C28: the loop of get terminates for every store size and every id; at each
\* iteration left <= mid <= right and mid is an index of the sorted keys, and
\* right - left strictly decreases from one iteration to the next until the
\* key is found or left > right.
C28_BinarySearchTerminates ==
    /\ [](SearchBoundsOk /\ SearchAnswerOk)
    /\ [][(search.pc = "loop" /\ search'.pc = "loop")
              => search'.right - search'.left < search.right - search.left]_vars
    /\ (search.pc = "loop") ~> (search.pc \in {"found", "missing"})

\* a lookup in a store of three or more keys that has narrowed its bounds from
\* both ends
C28_Witness ==
    /\ search.pc = "loop"
    /\ Len(search.sortedIds) >= 3
    /\ search.left > 0
    /\ search.right < Len(search.sortedIds) - 1


(***************************************************************************)
(* The React client (Milestone 4 Database Enhancement, ContactManager.jsx) *)
(* in front of the Map-backed or the MySQL-backed server.  client holds    *)
(* the state of the component (lines 10-23), the calls in flight, and two  *)
(* records of the run: failed (a call has ended in its catch) and events   *)
(* (the user events so far, bounded by MaxEvents).  A handler reads the    *)
(* state of the render that created it: a call in flight keeps the list it *)
(* captured when it started.  The event handlers are taken as the code     *)
(* defines them, whatever the browser checks before it submits a form.     *)
(***************************************************************************)
MaxEvents == 11

\* validateEmail (lines 26-29)
validateEmailForm(email) ==
    IF emailRegex(email) THEN null ELSE "Please enter a valid email address"

\* validatePhone (lines 31-37)
validatePhoneForm(phone) ==
    LET cleanedPhone == Strip(phone, WhiteSpace \cup {"-", "(", ")"})
        digitsOnly == Strip(cleanedPhone, Alphabet \ DigitChars)
    IN  IF Len(digitsOnly) < 10 THEN "Phone number must have at least 10 digits"
        ELSE IF phoneRegex(phone) THEN null
        ELSE "Please enter a valid phone number (e.g., +1-555-123-4567 or 555-123-4567)"

\* a || b of two messages
OrElse(a, b) == IF a # null THEN a ELSE b

\* The message validateForm (lines 46-57) gives for each field, null for none;
\* editing is the truth value of the state editingContact, ids are the ids of
\* the displayed contacts.
formErrors(contact, editing, ids) ==
    [f \in Fields |->
        CASE f = "id" ->
                 IF Trim(contact.id.v) = <<>> THEN "ID is required"
                 ELSE IF Len(Trim(contact.id.v)) > MaxIdLen
                 THEN "ID must be 10 characters or less"
                 ELSE IF ~editing /\ Trim(contact.id.v) \in ids
                 THEN "ID already exists. Please choose a different ID."
                 ELSE null
          [] f = "firstName" ->
                 IF Trim(contact.firstName.v) = <<>> THEN "First name is required" ELSE null
          [] f = "lastName" ->
                 IF Trim(contact.lastName.v) = <<>> THEN "Last name is required" ELSE null
          [] f = "phone" ->
                 IF Trim(contact.phone.v) = <<>>
                 THEN OrElse(validatePhoneForm(contact.phone.v), "Phone number is required")
                 ELSE null
          [] f = "email" ->
                 IF Trim(contact.email.v) = <<>>
                 THEN OrElse(validateEmailForm(contact.email.v), "Email address is required")
                 ELSE null
          [] f = "address" ->
                 IF contact.address.v # <<>> /\ Len(Trim(contact.address.v)) > MaxAddressLen
                 THEN "Address must be 200 characters or less"
                 ELSE null]

\* validateForm (lines 46-57): the errors object
validateForm(contact, editing, ids) ==
    LET err == formErrors(contact, editing, ids)
    IN  [f \in {g \in Fields : err[g] # null} |-> err[f]]

\* a form whose fields hold these strings
Form(id, firstName, lastName, phone, address, email) ==
    Body(Str(id), Str(firstName), Str(lastName), Str(phone), Str(address), Str(email))

\* the values a user types into each field
sDot == <<".">>
FormValues ==
    [id |-> {sA1, sDot}, firstName |-> {sJo}, lastName |-> {sLi},
     phone |-> {sPhone, sBad}, address |-> {<<>>, sElm}, email |-> {sEmailJo}]

\* the contact parsed from a row of the MySQL-backed server's JSON list
FromRow(r) == [f \in Fields |-> Str(r[f])]

DisplayedIds == {client.contacts[i].id.v : i \in 1..Len(client.contacts)}

\* the component shows its forms and buttons (lines 178-189 show a spinner
\* while loading)
Rendered == ~client.loading

\* the edit form is shown in the card of the contact being edited (line 349)
EditShown ==
    /\ Rendered
    /\ client.editingContact # Null
    /\ client.editingContact.id.v \in DisplayedIds

\* the Edit and Delete buttons of a card are shown (lines 467-479)
ButtonsShown(id) ==
    /\ Rendered
    /\ id \in DisplayedIds
    /\ client.editingContact # Null => client.editingContact.id.v # id

\* One run of an async handler: its request, the list of the render that
\* created it, and n, the number of the event that started it (0 for the
\* fetchContacts of useEffect), which tells equal requests apart.
Call(kind, contact, captured, n) ==
    [kind |-> kind, contact |-> contact, captured |-> captured, n |-> n, pc |-> "sent",
     ok |-> FALSE, res |-> [status |-> 0, json |-> <<>>]]

\* The component is mounted: useEffect has called fetchContacts (lines 60-66),
\* which awaits the response of GET /contacts.
Mounted ==
    [NoClient EXCEPT !.loading = TRUE, !.calls = {Call("fetch", NoBody, <<>>, 0)}]

\* The :id the server reads from `http://localhost:3000/contacts/${id}` (lines
\* 117, 139), which fetch parses as a URL: newlines are removed, trailing
\* spaces are cut, spaces inside are encoded and decoded again by the server,
\* and a path that ends with a segment "." or ".." or with no segment reaches
\* no route of PUT or DELETE.
urlId(id) == TrimEnd(Strip(id, {"\n"}))

Routed(id) == urlId(id) \notin {<<>>, <<".">>, <<".", ".">>}

\* the answer of the server to a request that matches no route
NoRoute == [status |-> 404, json |-> [html |-> "Cannot PUT or DELETE"]]

\* What the server at localhost:3000 does with the request of a call.
serve(call) ==
    CASE call.kind = "fetch" ->
             IF server = "map" THEN getContacts(contactsMap)
             ELSE getContactsSql(db, table)
      [] call.kind = "add" ->
             IF server = "map" THEN postContact(contactsMap, call.contact)
             ELSE postContactSql(db, table, call.contact)
      [] call.kind = "update" ->
             IF ~Routed(call.contact.id.v)
             THEN [contacts |-> IF server = "map" THEN contactsMap ELSE table,
                   res |-> NoRoute]
             ELSE IF server = "map"
             THEN putContact(contactsMap, urlId(call.contact.id.v), call.contact)
             ELSE putContactSql(db, table, urlId(call.contact.id.v), call.contact)
      [] call.kind = "delete" ->
             IF ~Routed(call.contact.id.v)
             THEN [contacts |-> IF server = "map" THEN contactsMap ELSE table,
                   res |-> NoRoute]
             ELSE IF server = "map"
             THEN deleteContact(contactsMap, urlId(call.contact.id.v))
             ELSE deleteContactSql(db, table, urlId(call.contact.id.v))

\* a user event, counted
Event(next) ==
    /\ client.events < MaxEvents
    /\ client' = [next EXCEPT !.events = client.events + 1]
    /\ UNCHANGED <<server, contactsArr, contactsMap, db, table, listening, candidate,
                   report, seed, search, collation>>

\* the Add Contact / Cancel button of the header (line 204)
ClientToggleForm ==
    /\ Rendered
    /\ Event([client EXCEPT !.showForm = ~@])

\* the Add Contact button of the empty list (line 338)
ClientShowForm ==
    /\ Rendered
    /\ client.contacts = <<>>
    /\ Event([client EXCEPT !.showForm = TRUE])

\* the Cancel button of the add form (lines 315-321)
ClientCancelForm ==
    /\ Rendered
    /\ client.showForm
    /\ Event([client EXCEPT !.showForm = FALSE, !.validationErrors = NoErrors])

\* handleInputChange (lines 161-173), from an input of the add form or of the
\* edit form, whose id input is disabled (line 370)
ClientInputChange(field, value) ==
    /\ Rendered
    /\ client.showForm \/ (EditShown /\ field # "id")
    /\ Event([client EXCEPT
                 !.validationErrors = [f \in DOMAIN @ \ {field} |-> @[f]],
                 !.editingContact = IF @ # Null THEN [@ EXCEPT ![field] = Str(value)]
                                    ELSE @,
                 !.newContact = IF client.editingContact # Null THEN @
                                ELSE [@ EXCEPT ![field] = Str(value)]])

\* startEdit (lines 151-154)
ClientStartEdit(i) ==
    /\ i \in 1..Len(client.contacts)
    /\ ButtonsShown(client.contacts[i].id.v)
    /\ Event([client EXCEPT !.editingContact = client.contacts[i],
                            !.validationErrors = NoErrors])

\* cancelEdit (lines 156-159)
ClientCancelEdit ==
    /\ EditShown
    /\ Event([client EXCEPT !.editingContact = Null, !.validationErrors = NoErrors])

\* the close button of the alert (line 220)
ClientDismissError ==
    /\ Rendered
    /\ client.error # null
    /\ Event([client EXCEPT !.error = null])

\* handleAdd up to its fetch (lines 78-93)
ClientHandleAdd ==
    /\ Rendered
    /\ client.showForm
    /\ LET errors == validateForm(client.newContact, client.editingContact # Null,
                                  DisplayedIds)
           contactToAdd == [client.newContact EXCEPT !.id = Str(Trim(@.v))]
       IN  Event(IF DOMAIN errors # {}
                 THEN [client EXCEPT !.validationErrors = errors]
                 ELSE [client EXCEPT
                          !.calls = @ \cup {Call("add", contactToAdd, client.contacts,
                                                 client.events + 1)}])

\* handleUpdate(editingContact) up to its fetch (lines 110-121)
ClientHandleUpdate ==
    /\ EditShown
    /\ LET errors == validateForm(client.editingContact, TRUE, DisplayedIds)
       IN  Event(IF DOMAIN errors # {}
                 THEN [client EXCEPT !.validationErrors = errors]
                 ELSE [client EXCEPT
                          !.calls = @ \cup {Call("update", client.editingContact,
                                                 client.contacts, client.events + 1)}])

\* handleDelete up to its fetch (lines 136-141), the confirmation accepted
ClientHandleDelete(id) ==
    /\ ButtonsShown(id)
    /\ Event([client EXCEPT
                 !.calls = @ \cup {Call("delete", [NoBody EXCEPT !.id = Str(id)],
                                        client.contacts, client.events + 1)}])

\* The server handles the request of a call and answers it.
ClientServe(call) ==
    /\ call \in client.calls
    /\ call.pc = "sent"
    /\ contactsMap' = IF server = "map" THEN serve(call).contacts ELSE contactsMap
    /\ table' = IF server = "mysql" THEN serve(call).contacts ELSE table
    /\ client' = [client EXCEPT
                     !.calls = (@ \ {call})
                         \cup {[call EXCEPT !.pc = "answered",
                                            !.ok = serve(call).res.status \in 200..299,
                                            !.res = serve(call).res]}]
    /\ UNCHANGED <<server, contactsArr, db, listening, candidate, report, seed, search,
                   collation>>

\* The list a call sets: lines 68-69, 98, 125, 142.  Every call works on the
\* list it captured.
setContacts(call) ==
    CASE call.kind = "fetch" ->
             IF server = "map" THEN call.res.json
             ELSE [i \in 1..Len(call.res.json) |-> FromRow(call.res.json[i])]
      [] call.kind = "add" -> Append(call.captured, call.contact)
      [] call.kind = "update" ->
             [i \in 1..Len(call.captured) |->
                 IF call.captured[i].id = call.contact.id THEN call.contact
                 ELSE call.captured[i]]
      [] call.kind = "delete" ->
             SelectSeq(call.captured, LAMBDA c : c.id # call.contact.id)

\* the message of the Error a call throws when its response is not ok (lines
\* 94-97, 122-124, 141): response.json() throws on a body that is no JSON
errorMessage(call) ==
    IF call.kind = "delete" THEN "Failed to delete contact"
    ELSE IF "error" \in DOMAIN call.res.json THEN call.res.json.error
    ELSE "SyntaxError"

\* The rest of a call once its response has arrived (lines 67-75, 94-107,
\* 122-133, 141-148); fetchContacts reads no status and sets what it parsed.
ClientResume(call) ==
    /\ call \in client.calls
    /\ call.pc = "answered"
    /\ client' =
           CASE call.kind = "fetch" ->
                    [client EXCEPT !.calls = @ \ {call},
                                   !.contacts = setContacts(call),
                                   !.loading = FALSE]
             [] call.kind # "fetch" /\ ~call.ok ->
                    [client EXCEPT !.calls = @ \ {call},
                                   !.error = errorMessage(call),
                                   !.failed = TRUE]
             [] call.kind = "add" /\ call.ok ->
                    [client EXCEPT !.calls = @ \ {call},
                                   !.contacts = setContacts(call),
                                   !.newContact = NoClient.newContact,
                                   !.showForm = FALSE,
                                   !.error = null,
                                   !.validationErrors = NoErrors]
             [] call.kind = "update" /\ call.ok ->
                    [client EXCEPT !.calls = @ \ {call},
                                   !.contacts = setContacts(call),
                                   !.editingContact = Null,
                                   !.error = null,
                                   !.validationErrors = NoErrors]
             [] call.kind = "delete" /\ call.ok ->
                    [client EXCEPT !.calls = @ \ {call},
                                   !.contacts = setContacts(call),
                                   !.error = null]
    /\ UNCHANGED <<server, contactsArr, contactsMap, db, table, listening, candidate,
                   report, seed, search, collation>>

\* The server is up (the MySQL-backed one connected to its database) and the
\* component has just been mounted.
InitClient ==
    /\ server \in {"map", "mysql"}
    /\ contactsArr = <<>>
    /\ contactsMap = <<>>
    /\ db = IF server = "mysql" THEN "connected" ELSE "undefined"
    /\ table = {}
    /\ listening = (server = "mysql")
    /\ candidate = NoBody
    /\ report = <<>>
    /\ seed = NoTestData
    /\ search = NoSearch
    /\ client = Mounted
    /\ collation \in Collations

NextClient ==
    \/ ClientToggleForm
    \/ ClientShowForm
    \/ ClientCancelForm
    \/ \E field \in Fields : \E value \in FormValues[field] :
           ClientInputChange(field, value)
    \/ \E i \in 1..MaxContacts : ClientStartEdit(i)
    \/ ClientCancelEdit
    \/ ClientDismissError
    \/ ClientHandleAdd
    \/ ClientHandleUpdate
    \/ \E id \in FormValues.id : ClientHandleDelete(id)
    \/ \E call \in client.calls : ClientServe(call)
    \/ \E call \in client.calls : ClientResume(call)

\* one ContactManager component in front of a server
SpecClient == InitClient /\ [][NextClient]_vars

\* forms that pass both validations, and forms that break one field rule each
FormCandidates ==
    {Form(sA1, sJo, sLi, sPhone, <<>>, sEmailJo),
     Form(sDot, sJo, sLi, sPhone, sElm, sEmailJo),
     Form(sB2, sJo, sLi, sBad, sElm, sEmailJo),
     Form(<<" ">>, sJo, sLi, sPhone, sElm, sEmailJo)}
    \cup {Form(sLongId, sJo, sLi, sPhone, sElm, sEmailJo),
          Form(sB2, <<" ">>, sLi, sPhone, sElm, sEmailJo),
          Form(sB2, sJo, <<>>, sPhone, sElm, sEmailJo),
          Form(sB2, sJo, sLi, <<>>, sElm, sEmailJo),
          Form(sB2, sJo, sLi, sPhone, sLongAddress, sEmailJo),
          Form(sB2, sJo, sLi, sPhone, sElm, sEmailNoDot),
          Form(sB2, sJo, sLi, sPhone, sElm, <<>>)}

\* a 400 'Validation failed' that names a field for another reason than a
\* duplicate id
FieldRuleFailure(res) ==
    /\ ValidationAnswer(res)
    /\ \E f \in DOMAIN res.json.details : res.json.details[f] # "ID already exists"

\* C29: validateForm is at least as strict as the server's validateContact on
\* the field rules: every field for which the server reports an error on a
\* form is a field validateForm reports too, and no call that passed
\* validateForm is answered with a field-rule ValidationFailed.
C29_ClientAtLeastAsStrict ==
    /\ \A form \in FormCandidates :
           DOMAIN validateContact(<<>>, form, TRUE).errors
               \subseteq DOMAIN validateForm(form, FALSE, {})
    /\ \A call \in client.calls :
           (call.pc = "answered" /\ call.kind \in {"add", "update"})
               => ~FieldRuleFailure(call.res)


\* the contacts the server holds, as GET /contacts would list them
ServerContacts ==
    IF server = "map" THEN Range(MapValues(contactsMap))
    ELSE {FromRow(r) : r \in table}

\* C30: once every call of handleAdd, handleUpdate and handleDelete has
\* completed, all of them successfully, the list of the component holds
\* exactly the contacts of the server, each once, whatever the order in which
\* overlapping calls were served and resumed.
C30_ListMatchesServer ==
    (client.calls = {} /\ ~client.loading /\ ~client.failed)
        => /\ Range(client.contacts) = ServerContacts
           /\ Len(client.contacts) = Cardinality(ServerContacts)
=============================================================================
